---------------------------- MODULE Spec2Model ----------------------------
(***************************************************************************)
(* Storyboard production tool: scene code comparator and normalisation     *)
(* (src/src/App.tsx), import row filter and converter (src/src/App.tsx)    *)
(* and the persisted JSON store (src/electron/db.ts).                      *)
(*                                                                         *)
(* A JavaScript string is modelled as a sequence of one-character strings, *)
(* so that split, trim, padStart, slice, includes and join are computed on *)
(* characters, as the code computes them.                                  *)
(***************************************************************************)
EXTENDS Integers, Sequences, FiniteSets, TLC

VARIABLES
    codeA, codeB, cmpOut,          \* comparator: the two codes, its results
    raw, normOut,                  \* normalizeCode: the raw string, its results
    pasted, rowsOut, scenesOut,    \* parseRows / convertRowsToScenes
    disk, cached,                  \* db.ts: storyboard-db.json, the cached document
    settings, scenes,              \* App state: settings, scenes
    showImport, importInput, importMarkdown,
    loadPc, loaded,                \* the mount effect's position, what it has read
    calls,                         \* applyImport calls waiting on replace-scenes
    debounceRef,                   \* the pending autosave timer (0: none)
    nextId, now,                   \* crypto.randomUUID(), Date.now()
    files,                         \* the file system: what is at each image path
    linkRuns, missingLinks,        \* checkLinks runs in flight, the link-broken map
    exports,                       \* handleExport calls, each with its archive
    exportStatus, exportWarnings,  \* App state: the export's status and warnings
    zipFile,                       \* STORYBOARD_EXPORT.zip in the save directory
    timers,                        \* window.setTimeout: the timers that are pending
    ops, replies,                  \* store mutations invoked, replies on their way
    objects, live,                 \* db.ts: the scene objects, those of data.scenes
    docs, cachedRef,               \* db.ts at start: the documents loadData made,
                                   \* and which of them cached refers to (0: none)
    assets,                        \* the files of the assets directory
    folder, copies                 \* a library folder: what each file holds; the
                                   \* copy-file-to-folder and
                                   \* save-clipboard-image-to-folder calls

cmpVars == <<codeA, codeB, cmpOut>>
normVars == <<raw, normOut>>
convVars == <<pasted, rowsOut, scenesOut>>
storeVars == <<disk, cached>>
uiVars == <<settings, scenes, showImport, importInput, importMarkdown,
            loadPc, loaded, calls, debounceRef>>
envVars == <<nextId, now>>
linkVars == <<linkRuns, missingLinks>>
exportVars == <<exports, exportStatus, exportWarnings, zipFile>>
timerVars == <<timers>>
copyVars == <<folder, copies>>
mutVars == <<ops, replies, objects, live, docs, cachedRef, assets, copyVars>>
opsVars == <<files, linkVars, exportVars, timerVars, mutVars>>
vars == <<cmpVars, normVars, convVars, storeVars, uiVars, envVars, opsVars>>

-----------------------------------------------------------------------------
(* Bounds *)

\* most segments of a code drawn for the comparator
MaxCmpSegs == 2
\* most segments of a raw string drawn for normalizeCode
MaxSegs == 3
\* most rows of a pasted table
MaxRows == 2
\* most applyImport calls in a run
MaxImports == 2
\* the latest reading of the clock
MaxClock == 2
\* most renders with a new scene set that start a link check
MaxLinkRuns == 2
\* most handleExport calls in a run
MaxExports == 2

-----------------------------------------------------------------------------
(* Characters and strings *)

Digits == {"0", "1", "2", "3", "4", "5", "6", "7", "8", "9"}
Separators == {".", "-"}
\* the white space String.prototype.trim and Number() strip
WhiteSpace == {" ", "\t", "\r", "\n"}

DigitVal(c) ==
    CASE c = "0" -> 0 [] c = "1" -> 1 [] c = "2" -> 2 [] c = "3" -> 3
      [] c = "4" -> 4 [] c = "5" -> 5 [] c = "6" -> 6 [] c = "7" -> 7
      [] c = "8" -> 8 [] c = "9" -> 9

\* String.prototype.split on a character class: the pieces between the
\* separators, so "" gives [""] and "a." gives ["a", ""]
split(s, seps) ==
    LET at == {i \in 1..Len(s) : s[i] \in seps}
        nth(k) == CHOOSE i \in at : Cardinality({j \in at : j < i}) = k - 1
        from(k) == IF k = 1 THEN 1 ELSE nth(k - 1) + 1
        to(k) == IF k = Cardinality(at) + 1 THEN Len(s) ELSE nth(k) - 1
    IN [k \in 1..(Cardinality(at) + 1) |-> SubSeq(s, from(k), to(k))]

RECURSIVE trimStart(_)
trimStart(s) ==
    IF s # <<>> /\ Head(s) \in WhiteSpace THEN trimStart(Tail(s)) ELSE s

RECURSIVE trimEnd(_)
trimEnd(s) ==
    IF s # <<>> /\ s[Len(s)] \in WhiteSpace
    THEN trimEnd(SubSeq(s, 1, Len(s) - 1)) ELSE s

trim(s) == trimEnd(trimStart(s))

RECURSIVE padStart(_, _, _)
padStart(s, n, c) == IF Len(s) >= n THEN s ELSE padStart(<<c>> \o s, n, c)

\* s.slice(-n)
sliceLast(s, n) == IF Len(s) <= n THEN s ELSE SubSeq(s, Len(s) - n + 1, Len(s))

includes(s, c) == \E i \in 1..Len(s) : s[i] = c

RECURSIVE joinFrom(_, _, _)
joinFrom(parts, sep, i) ==
    IF i > Len(parts) THEN <<>>
    ELSE IF i = Len(parts) THEN parts[i]
    ELSE parts[i] \o sep \o joinFrom(parts, sep, i + 1)

\* Array.prototype.join
join(parts, sep) == joinFrom(parts, sep, 1)

\* null, and a value that is not null
null == <<>>
Some(x) == <<x>>

-----------------------------------------------------------------------------
(* normalizeCode                                                           *)

\* normalizeCode with the branches of the separator choice exchanged
normalizeCode_swappedSep(rawCode) ==
    LET trimmed == trim(rawCode) IN
    IF trimmed = <<>> THEN <<>>
    ELSE LET parts == split(trimmed, Separators)
             first == sliceLast(padStart(parts[1], 3, "0"), 3)
             sep == IF includes(trimmed, "-") THEN <<".">> ELSE <<"-">>
             rest == join(Tail(parts), sep)
         IN IF rest # <<>> THEN first \o sep \o rest ELSE first

\* normalizeCode without slice(-3)
normalizeCode_noSlice(rawCode) ==
    LET trimmed == trim(rawCode) IN
    IF trimmed = <<>> THEN <<>>
    ELSE LET parts == split(trimmed, Separators)
             first == padStart(parts[1], 3, "0")
             sep == IF includes(trimmed, "-") THEN <<"-">> ELSE <<".">>
             rest == join(Tail(parts), sep)
         IN IF rest # <<>> THEN first \o sep \o rest ELSE first

\* normalizeCode joining with the separator that comes first in the string
normalizeCode_firstSeen(rawCode) ==
    LET trimmed == trim(rawCode) IN
    IF trimmed = <<>> THEN <<>>
    ELSE LET parts == split(trimmed, Separators)
             first == sliceLast(padStart(parts[1], 3, "0"), 3)
             found == SelectSeq(trimmed, LAMBDA c : c \in Separators)
             sep == IF found # <<>> THEN <<found[1]>> ELSE <<".">>
             rest == join(Tail(parts), sep)
         IN IF rest # <<>> THEN first \o sep \o rest ELSE first

normalizeCode(rawCode) ==
    LET trimmed == trim(rawCode) IN
    IF trimmed = <<>> THEN <<>>
    ELSE LET parts == split(trimmed, Separators)
             first == sliceLast(padStart(parts[1], 3, "0"), 3)
             sep == IF includes(trimmed, "-") THEN <<"-">> ELSE <<".">>
             rest == join(Tail(parts), sep)
         IN IF rest # <<>> THEN first \o sep \o rest ELSE first

-----------------------------------------------------------------------------
(* Numbers: a JavaScript number is [nan, v], NaN being [nan |-> TRUE]      *)

NaN == [nan |-> TRUE, v |-> 0]
Num(n) == [nan |-> FALSE, v |-> n]

RECURSIVE DecimalAcc(_, _)
DecimalAcc(s, acc) ==
    IF s = <<>> THEN acc ELSE DecimalAcc(Tail(s), 10 * acc + DigitVal(Head(s)))

\* Number(part): white space is stripped, "" is 0, decimal digits are their
\* value, anything else is NaN
ToNumber(part) ==
    LET t == trim(part) IN
    IF t = <<>> THEN Num(0)
    ELSE IF \A i \in 1..Len(t) : t[i] \in Digits THEN Num(DecimalAcc(t, 0))
    ELSE NaN

\* av !== bv: NaN is unequal to everything, itself included
StrictNotEqual(x, y) == x.nan \/ y.nan \/ x.v # y.v

\* av - bv
Minus(x, y) == IF x.nan \/ y.nan THEN NaN ELSE Num(x.v - y.v)

-----------------------------------------------------------------------------
(* Scene code comparator (sortScenes)                                      *)

parse(code) ==
    LET parts == split(code, Separators) IN
    [i \in 1..Len(parts) |-> ToNumber(parts[i])]

\* ap[i] ?? 0: only a missing element defaults to 0
OrZero(ap, i) == IF i <= Len(ap) THEN ap[i] ELSE Num(0)

RECURSIVE compareFrom(_, _, _, _)
compareFrom(ap, bp, i, len) ==
    IF i > len THEN Num(0)
    ELSE IF StrictNotEqual(OrZero(ap, i), OrZero(bp, i))
         THEN Minus(OrZero(ap, i), OrZero(bp, i))
         ELSE compareFrom(ap, bp, i + 1, len)

\* the comparator looping to the shorter length (Math.min for Math.max)
compare_minLen(a, b) ==
    LET ap == parse(a)
        bp == parse(b)
        len == IF Len(ap) <= Len(bp) THEN Len(ap) ELSE Len(bp)
    IN compareFrom(ap, bp, 1, len)

\* the comparator sortScenes hands to Array.prototype.sort
compare(a, b) ==
    LET ap == parse(a)
        bp == parse(b)
        len == IF Len(ap) >= Len(bp) THEN Len(ap) ELSE Len(bp)
    IN compareFrom(ap, bp, 1, len)

Sign(n) == IF n > 0 THEN 1 ELSE IF n < 0 THEN -1 ELSE 0

\* the order Array.prototype.sort reads from a comparator's result: a NaN
\* result counts as +0
SortOrder(r) == IF r.nan THEN 0 ELSE Sign(r.v)


RECURSIVE insertScene(_, _)
\* x goes behind every scene that does not sort after it: the sort is stable
insertScene(sorted, x) ==
    IF sorted = <<>> THEN <<x>>
    ELSE IF SortOrder(compare(sorted[Len(sorted)].code, x.code)) <= 0
         THEN Append(sorted, x)
         ELSE Append(insertScene(SubSeq(sorted, 1, Len(sorted) - 1), x),
                     sorted[Len(sorted)])

RECURSIVE sortFrom(_, _, _)
sortFrom(list, i, acc) ==
    IF i > Len(list) THEN acc
    ELSE sortFrom(list, i + 1, insertScene(acc, list[i]))

\* [...scenes].sort(comparator): a new list, the argument is left alone
sortScenes(list) == sortFrom(list, 1, <<>>)

-----------------------------------------------------------------------------
(* Import: codeMatches, parseRows, buildMarkdown, convertRowsToScenes      *)

RECURSIVE regexRun(_, _, _)
\* /^\d+(?:[.-]\d+)*$/ read left to right: a separator only after a digit,
\* the end only after a digit
regexRun(s, i, afterDigit) ==
    IF i > Len(s) THEN afterDigit
    ELSE IF s[i] \in Digits THEN regexRun(s, i + 1, TRUE)
    ELSE IF s[i] \in Separators /\ afterDigit THEN regexRun(s, i + 1, FALSE)
    ELSE FALSE

\* codeMatches without the $ anchor: any string that starts with a digit
codeMatches_unanchored(value) ==
    LET t == trim(value) IN t # <<>> /\ t[1] \in Digits

codeMatches(value) == regexRun(trim(value), 1, FALSE)

\* input.split(/\r?\n/): a "\r" right before the line feed goes with it
splitLines(input) ==
    LET pieces == split(input, {"\n"}) IN
    [i \in 1..Len(pieces) |->
        IF i < Len(pieces) /\ pieces[i] # <<>> /\ pieces[i][Len(pieces[i])] = "\r"
        THEN SubSeq(pieces[i], 1, Len(pieces[i]) - 1)
        ELSE pieces[i]]

\* .map((line) => line.trim()).filter(Boolean)
trimmedLines(input) ==
    LET ls == splitLines(input)
        trimmedAll == [i \in 1..Len(ls) |-> trim(ls[i])]
    IN SelectSeq(trimmedAll, LAMBDA l : l # <<>>)

\* the columns parseRows reads from a trimmed line: the trimmed non-empty
\* cells of a line that starts with '|', the cells of a line with a tab, and
\* none of any other line
lineCols(line) ==
    IF line[1] = "|" THEN
        LET cells == split(line, {"|"})
            trimmedCells == [i \in 1..Len(cells) |-> trim(cells[i])]
        IN SelectSeq(trimmedCells, LAMBDA col : Len(col) > 0)
    ELSE IF includes(line, "\t") THEN split(line, {"\t"})
    ELSE <<>>

RECURSIVE rowsFrom(_, _)
rowsFrom(lines, minCols) ==
    IF lines = <<>> THEN <<>>
    ELSE LET cols == lineCols(Head(lines)) IN
         (IF Len(cols) >= minCols
          THEN << SubSeq(cols, 1, IF Len(cols) < 4 THEN Len(cols) ELSE 4) >>
          ELSE <<>>)
             \o rowsFrom(Tail(lines), minCols)

\* parseRows pushing a row of 3 columns as well (cols.length >= 3)
parseRows_threeCols(input) == rowsFrom(trimmedLines(input), 3)

parseRows(input) == rowsFrom(trimmedLines(input), 4)

MarkdownHeader ==
    <<"|", " ", "C", "o", "d", "e", " ", "|", " ", "E", "n", "g", "l", "i",
      "s", "h", " ", "|", " ", "V", "i", "e", "t", "n", "a", "m", "e", "s",
      "e", " ", "|", " ", "K", "e", "y", "w", "o", "r", "d", "s", " ", "|",
      "\n", "|", " ", "-", "-", "-", " ", "|", " ", "-", "-", "-", " ",
      "|", " ", "-", "-", "-", " ", "|", " ", "-", "-", "-", " ", "|">>

RECURSIVE markdownBody(_)
markdownBody(rows) ==
    IF rows = <<>> THEN <<>>
    ELSE LET r == Head(rows)
             line == <<"|", " ">> \o r[1] \o <<" ", "|", " ">> \o r[2]
                       \o <<" ", "|", " ">> \o r[3] \o <<" ", "|", " ">> \o r[4]
                       \o <<" ", "|">>
         IN IF Len(rows) = 1 THEN line
            ELSE line \o <<"\n">> \o markdownBody(Tail(rows))

\* [header, body].filter(Boolean).join('\n')
buildMarkdown(rows) ==
    LET body == markdownBody(rows) IN
    IF body = <<>> THEN MarkdownHeader ELSE MarkdownHeader \o <<"\n">> \o body

\* row[i] ?? ''
OrEmpty(row, i) == IF i <= Len(row) THEN row[i] ELSE <<>>

RECURSIVE buildScenes(_, _, _)
\* .filter(codeMatches).map(...): a scene for each row that passes, with a
\* fresh id (ids firstId, firstId + 1, ... stand for crypto.randomUUID())
buildScenes(rows, firstId, time) ==
    IF rows = <<>> THEN <<>>
    ELSE IF codeMatches(Head(rows)[1])
         THEN << [id |-> firstId,
                  code |-> normalizeCode(Head(rows)[1]),
                  enText |-> OrEmpty(Head(rows), 2),
                  viText |-> OrEmpty(Head(rows), 3),
                  keywords |-> OrEmpty(Head(rows), 4),
                  primaryImagePath |-> null,
                  characterImage |-> FALSE,
                  updatedAt |-> time] >>
              \o buildScenes(Tail(rows), firstId + 1, time)
         ELSE buildScenes(Tail(rows), firstId, time)

\* convertRowsToScenes returning the scenes in the order of the rows
convertRowsToScenes_unsorted(rows, firstId, time) == buildScenes(rows, firstId, time)

convertRowsToScenes(rows, firstId, time) == sortScenes(buildScenes(rows, firstId, time))

-----------------------------------------------------------------------------
(* The persisted document (db.ts).  disk is null when storyboard-db.json   *)
(* is missing or does not parse, cached is null until the first load.      *)

defaultSettings ==
    [autosaveEnabled |-> FALSE, saveDirectory |-> <<>>, lastSavedAt |-> null,
     libraryRoots |-> <<>>]

\* persist: the whole cached document is written over the file
persist(c, d) == IF c = null THEN d ELSE c

\* loadData: the cached document if there is one, else the file's, else the
\* default document, which is written to the file
loadData(c, d) ==
    IF c # null THEN [cached |-> c, disk |-> d]
    ELSE IF d # null THEN [cached |-> d, disk |-> d]
    ELSE LET fresh == Some([settings |-> defaultSettings, scenes |-> <<>>])
         IN [cached |-> fresh, disk |-> persist(fresh, d)]

\* replaceScenes adding the scenes to those of the document
replaceScenes_merge(data, newScenes) ==
    [data EXCEPT !.scenes = data.scenes \o newScenes]

\* data.scenes = scenes
replaceScenes(data, newScenes) == [data EXCEPT !.scenes = newScenes]

\* triggerAutosave, from a render in which autosaveEnabled was auto: the
\* pending timer is cleared and a new one set, whose handle is kept
triggerAutosave(auto, ref) == IF ~auto THEN ref ELSE ref + 1

-----------------------------------------------------------------------------
(* Reference reading of a code: integer segments, trailing zeros, first    *)
(* unequal pair                                                            *)

AllDigits(s) == s # <<>> /\ \A i \in 1..Len(s) : s[i] \in Digits

RECURSIVE Pow10(_)
Pow10(n) == IF n = 0 THEN 1 ELSE 10 * Pow10(n - 1)

RECURSIVE PlaceSum(_, _)
PlaceSum(s, i) ==
    IF i > Len(s) THEN 0
    ELSE DigitVal(s[i]) * Pow10(Len(s) - i) + PlaceSum(s, i + 1)

\* a segment read as an integer; a segment that is no integer counts as 0
SegValue(seg) == IF AllDigits(seg) THEN PlaceSum(seg, 1) ELSE 0

SegValues(code) ==
    LET parts == split(code, Separators) IN
    [i \in 1..Len(parts) |-> SegValue(parts[i])]

PadZeros(vals, n) == [i \in 1..n |-> IF i <= Len(vals) THEN vals[i] ELSE 0]

RefCompare(a, b) ==
    LET va == SegValues(a)
        vb == SegValues(b)
        n == IF Len(va) >= Len(vb) THEN Len(va) ELSE Len(vb)
        pa == PadZeros(va, n)
        pb == PadZeros(vb, n)
        diff == {i \in 1..n : pa[i] # pb[i]}
    IN IF diff = {} THEN 0
       ELSE LET first == CHOOSE i \in diff : \A j \in diff : i <= j
            IN IF pa[first] < pb[first] THEN -1 ELSE 1

\* digits, then any number of (. or -) followed by digits
IsNumericCode(code) ==
    LET parts == split(code, Separators) IN
    \A i \in 1..Len(parts) : AllDigits(parts[i])

-----------------------------------------------------------------------------
(* Inputs of the comparator                                                *)

\* segments: empty, 0, 2, 9, 10, a (no number)
CmpTok == { <<>>, <<"0">>, <<"2">>, <<"9">>, <<"1", "0">>, <<"a">> }

RECURSIVE CodesOf(_, _)
\* the strings of 1..n segments of tok, each joined by either separator
CodesOf(tok, n) ==
    IF n <= 1 THEN tok
    ELSE LET shorter == CodesOf(tok, n - 1) IN
         shorter \cup { c \o <<sep>> \o t : c \in shorter, sep \in Separators, t \in tok }

CmpCodes == CodesOf(CmpTok, MaxCmpSegs)

-----------------------------------------------------------------------------
(* States in which a part of the program has not been used                 *)

CmpIdle == codeA = <<>> /\ codeB = <<>> /\ cmpOut = <<>>
NormIdle == raw = <<>> /\ normOut = <<>>
ConvIdle == pasted = <<>> /\ rowsOut = <<>> /\ scenesOut = <<>>

\* image paths the scenes of the model refer to
PathA == <<"a", ".", "p", "n", "g">>
PathB == <<"b", ".", "p", "n", "g">>
Paths == {PathA, PathB}

\* no link check has run
LinksIdle == linkRuns = <<>> /\ missingLinks = <<>>

idleStatus == [state |-> "idle", message |-> <<>>]

\* no export has been asked for
ExportIdle ==
    /\ exports = <<>>
    /\ exportStatus = idleStatus
    /\ exportWarnings = <<>>
    /\ zipFile = null

\* no timer is pending
TimersIdle == timers = {}

\* no mutation has been invoked
CopyIdle == folder = <<>> /\ copies = <<>>

MutIdle ==
    /\ ops = <<>> /\ replies = <<>> /\ objects = <<>> /\ live = <<>> /\ assets = {}
    /\ CopyIdle
    /\ docs = <<>> /\ cachedRef = 0

OpsIdle ==
    /\ files = [p \in Paths |-> "absent"]
    /\ LinksIdle
    /\ ExportIdle
    /\ TimersIdle
    /\ MutIdle

\* no document on disk, nothing cached, the App's initial state
AppIdle ==
    /\ disk = null
    /\ cached = null
    /\ settings = defaultSettings
    /\ scenes = <<>>
    /\ showImport = FALSE
    /\ importInput = <<>>
    /\ importMarkdown = <<>>
    /\ loadPc = "mounted"
    /\ loaded = <<>>
    /\ calls = <<>>
    /\ debounceRef = 0
    /\ nextId = 1
    /\ now = 1
    /\ OpsIdle

-----------------------------------------------------------------------------
(* The comparator applied to two codes                                     *)

InitCompare ==
    /\ codeA \in CmpCodes
    /\ codeB \in CmpCodes
    /\ cmpOut = <<>>
    /\ NormIdle /\ ConvIdle /\ AppIdle

\* sort calls the comparator on a pair, in either order
Compare ==
    /\ cmpOut = <<>>
    /\ cmpOut' = <<compare(codeA, codeB), compare(codeB, codeA)>>
    /\ UNCHANGED <<opsVars, codeA, codeB, normVars, convVars, storeVars, uiVars, envVars>>

NextCompare == Compare

SpecCompare == InitCompare /\ [][NextCompare]_vars

Str2_9 == <<"2", ".", "9">>
Str2_10 == <<"2", ".", "1", "0">>
Str2_2 == <<"2", ".", "2">>
Str003_1 == <<"0", "0", "3", ".", "1">>
Str003_2 == <<"0", "0", "3", ".", "2">>
Str003_10 == <<"0", "0", "3", ".", "1", "0">>

\* C1 (as claimed): over all code strings the comparator, read as sort reads
\* it, is antisymmetric, sign(compare(a,b)) = -sign(compare(b,a)), and
\* transitive, compare(a,b) <= 0 and compare(b,c) <= 0 give compare(a,c) <= 0.
C1_TotalOrder ==
    cmpOut # <<>> =>
        /\ SortOrder(cmpOut[1]) = - SortOrder(cmpOut[2])
        /\ \A c \in CmpTok :
              (SortOrder(cmpOut[1]) <= 0 /\ SortOrder(compare(codeB, c)) <= 0)
                  => SortOrder(compare(codeA, c)) <= 0

\* C2: for two codes of numeric segments the comparator gives the reference
\* comparison (integer segments, the shorter padded with zeros, the first
\* unequal pair decides): "2.9" < "2.10", "2.10" > "2.2", "3" equals "3.0",
\* and "003.2", "003.10", "003.1" sort to "003.1", "003.2", "003.10".
C2_MatchesReference ==
    /\ (cmpOut # <<>> /\ IsNumericCode(codeA) /\ IsNumericCode(codeB)) =>
          /\ ~cmpOut[1].nan
          /\ Sign(cmpOut[1].v) = RefCompare(codeA, codeB)
    /\ (cmpOut # <<>> /\ codeA = Str2_9 /\ codeB = Str2_10) =>
          (cmpOut[1].v < 0 /\ cmpOut[2].v > 0)
    /\ (cmpOut # <<>> /\ codeA = Str2_10 /\ codeB = Str2_2) => cmpOut[1].v > 0
    /\ (cmpOut # <<>> /\ codeA = <<"2">> /\ codeB = <<"2", ".", "0">>) =>
          cmpOut[1].v = 0
    /\ cmpOut # <<>> =>
          sortScenes(<<[code |-> Str003_2], [code |-> Str003_10], [code |-> Str003_1]>>)
              = <<[code |-> Str003_1], [code |-> Str003_2], [code |-> Str003_10]>>

C2_Witness ==
    /\ cmpOut # <<>>
    /\ codeA = Str2_9
    /\ codeB = Str2_10
    /\ SortOrder(cmpOut[1]) = -1

\* C3 (as claimed): for any two code strings, a segment that is no number
\* included, the comparator gives the order it would give if every
\* unparseable segment were 0.
C3_UnparseableAsZero ==
    cmpOut # <<>> => SortOrder(cmpOut[1]) = RefCompare(codeA, codeB)


-----------------------------------------------------------------------------
(* normalizeCode applied to a raw string, and to its own result            *)

\* segments: empty, 1, 12, 123, 1234, two with white space inside, a
NormTok ==
    { <<>>, <<"1">>, <<"1", "2">>, <<"1", "2", "3">>, <<"1", "2", "3", "4">>,
      <<"1", " ">>, <<"1", " ", " ", "2">>, <<"a">> }

\* the strings of segments, bare and with white space around them
RawCodes ==
    LET bodies == CodesOf(NormTok, MaxSegs) IN
    bodies \cup { <<" ">> \o b \o <<" ">> : b \in bodies }

InitNormalize ==
    /\ raw \in RawCodes
    /\ normOut = <<>>
    /\ CmpIdle /\ ConvIdle /\ AppIdle

Normalize ==
    /\ normOut = <<>>
    /\ normOut' = <<normalizeCode(raw)>>
    /\ UNCHANGED <<opsVars, raw, cmpVars, convVars, storeVars, uiVars, envVars>>

NormalizeAgain ==
    /\ Len(normOut) = 1
    /\ normOut' = Append(normOut, normalizeCode(normOut[1]))
    /\ UNCHANGED <<opsVars, raw, cmpVars, convVars, storeVars, uiVars, envVars>>

NextNormalize == Normalize \/ NormalizeAgain

SpecNormalize == InitNormalize /\ [][NextNormalize]_vars

HasWhiteSpace(s) == \E i \in 1..Len(s) : s[i] \in WhiteSpace

\* the separator characters of a string, in order
SepSeq(s) == SelectSeq(s, LAMBDA c : c \in Separators)

\* a first segment as the claim describes it: '0's in front up to 3
\* characters, or the last 3 characters of a longer one
Pad3Ref(seg) ==
    IF Len(seg) >= 3 THEN <<seg[Len(seg) - 2], seg[Len(seg) - 1], seg[Len(seg)]>>
    ELSE [i \in 1..3 |-> IF i <= 3 - Len(seg) THEN "0" ELSE seg[i - (3 - Len(seg))]]

Str1_12d1 == <<"1", "-", "1", "2">>
Str001_12d1 == <<"0", "0", "1", "-", "1", "2">>

\* C4 (as claimed): normalizeCode is idempotent on every raw string.
C4_Idempotent ==
    Len(normOut) = 2 => normOut[2] = normOut[1]

\* C4 (amended): normalizeCode is idempotent on every raw string whose first
\* segment, after trimming, holds no white space.
C4_IdempotentCleanFirst ==
    (Len(normOut) = 2 /\ ~HasWhiteSpace(split(trim(raw), Separators)[1]))
        => normOut[2] = normOut[1]

C4_Witness ==
    /\ Len(normOut) = 2
    /\ raw = <<" ">> \o Str1_12d1 \o <<" ">>
    /\ normOut[1] = Str001_12d1
    /\ normOut[2] = Str001_12d1

\* C5 (as claimed): the result is empty when trimming leaves nothing; else
\* its first segment is the raw first segment padded with '0' to 3
\* characters, or its last 3 characters, and the remaining segments are the
\* raw ones, unchanged and in order.
C5_FirstPaddedRestKept ==
    Len(normOut) >= 1 =>
        LET t == trim(raw) IN
        IF t = <<>> THEN normOut[1] = <<>>
        ELSE LET parts == split(t, Separators)
                 out == split(normOut[1], Separators)
             IN /\ Len(out[1]) = 3
                /\ out[1] = Pad3Ref(parts[1])
                /\ Tail(out) = Tail(parts)

\* C5 (amended): as claimed, except that when the only remaining segment is
\* empty (the trimmed string ends with its single separator, "1.") that
\* segment and its separator are dropped.
C5_FirstPaddedRestKeptButLoneEmpty ==
    Len(normOut) >= 1 =>
        LET t == trim(raw) IN
        IF t = <<>> THEN normOut[1] = <<>>
        ELSE LET parts == split(t, Separators)
                 out == split(normOut[1], Separators)
             IN /\ Len(out[1]) = 3
                /\ out[1] = Pad3Ref(parts[1])
                /\ Tail(out) = IF Tail(parts) = << <<>> >> THEN <<>> ELSE Tail(parts)

C5_Witness ==
    /\ Len(normOut) >= 1
    /\ raw = <<"1", "2", "3", "4", ".", "1", "-", "a">>
    /\ normOut[1] = <<"2", "3", "4", "-", "1", "-", "a">>

-----------------------------------------------------------------------------
(* parseRows and convertRowsToScenes applied to a pasted table             *)

TxtHello == <<"H", "e", "l", "l", "o">>
TxtXinChao == <<"X", "i", "n", " ", "c", "h", "à", "o">>
TxtKnife == <<"k", "n", "i", "f", "e">>
TxtAbc == <<"a", "b", "c">>

\* first cells: 5, 3, abc, 2.10, 2.9
ConvCodeTok == { <<"5">>, <<"3">>, TxtAbc, Str2_10, Str2_9 }

\* the cells of a row: four cells, four with an empty one, three
RowCells(code) ==
    { <<code, TxtHello, TxtXinChao, TxtKnife>>,
      <<code, TxtHello, <<>>, TxtKnife>>,
      <<code, TxtHello, TxtXinChao>> }

\* a row of a markdown table ("pipe") or of tab-separated text ("tab")
TableRows ==
    [style : {"pipe", "tab"}, cols : UNION { RowCells(code) : code \in ConvCodeTok }]

Tables(n) == UNION { [1..k -> TableRows] : k \in 0..n }

LineBreaks == { <<"\n">>, <<"\r", "\n">> }

renderRow(r) ==
    IF r.style = "pipe"
    THEN <<"|", " ">> \o join(r.cols, <<" ", "|", " ">>) \o <<" ", "|">>
    ELSE join(r.cols, <<"\t">>)

\* the text on the clipboard for a table
PastedText(p) == join([i \in 1..Len(p.rows) |-> renderRow(p.rows[i])], p.nl)

InitConvert ==
    /\ pasted \in [rows : Tables(MaxRows), nl : LineBreaks]
    /\ rowsOut = <<>>
    /\ scenesOut = <<>>
    /\ CmpIdle /\ NormIdle /\ AppIdle

ParseRows ==
    /\ rowsOut = <<>>
    /\ rowsOut' = <<parseRows(PastedText(pasted))>>
    /\ UNCHANGED <<opsVars, pasted, scenesOut, cmpVars, normVars, storeVars, uiVars, envVars>>

ConvertRows ==
    /\ rowsOut # <<>>
    /\ scenesOut = <<>>
    /\ scenesOut' = <<convertRowsToScenes(rowsOut[1], nextId, now)>>
    /\ nextId' = nextId + Len(scenesOut'[1])
    /\ UNCHANGED <<opsVars, pasted, rowsOut, now, cmpVars, normVars, storeVars, uiVars>>

NextConvert == ParseRows \/ ConvertRows

SpecConvert == InitConvert /\ [][NextConvert]_vars

\* how many elements of a sequence satisfy Test
Count(seq, Test(_)) == Cardinality({i \in 1..Len(seq) : Test(seq[i])})

\* the columns of a row as the import reads them: a markdown row's non-empty
\* cells, a tab-separated row's cells
RefColumns(r) ==
    IF r.style = "pipe" THEN SelectSeq(r.cols, LAMBDA c : c # <<>>) ELSE r.cols

RowIncluded(r) == Len(RefColumns(r)) >= 4 /\ IsNumericCode(RefColumns(r)[1])

Str003 == <<"0", "0", "3">>
Str005 == <<"0", "0", "5">>

RowFields(r) ==
    <<normalizeCode(r.cols[1]), r.cols[2], r.cols[3], r.cols[4]>>

SceneFields(sc) == <<sc.code, sc.enText, sc.viText, sc.keywords>>

\* C9 (as claimed): every pasted markdown or tab-separated row with a numeric
\* code and four columns yields exactly one scene, the ids pairwise
\* distinct, with enText, viText and keywords the row's second, third and
\* fourth columns (an empty column giving an empty string), no image and the
\* character flag false; "| 5 | Hello | Xin chào | knife |" yields one scene
\* with code "005", "Hello", "Xin chào", "knife".
C9_OneScenePerRow ==
    (scenesOut # <<>>
       /\ \A i \in 1..Len(pasted.rows) :
             Len(pasted.rows[i].cols) = 4 /\ IsNumericCode(pasted.rows[i].cols[1])) =>
        LET out == scenesOut[1] IN
        /\ Len(out) = Len(pasted.rows)
        /\ \A i, j \in 1..Len(out) : i # j => out[i].id # out[j].id
        /\ \A i \in 1..Len(out) :
              out[i].primaryImagePath = null /\ out[i].characterImage = FALSE
        /\ \A i \in 1..Len(pasted.rows) :
              Count(out, LAMBDA sc : SceneFields(sc) = RowFields(pasted.rows[i]))
                  = Count(pasted.rows, LAMBDA r : RowFields(r) = RowFields(pasted.rows[i]))
        /\ (Len(pasted.rows) = 1 /\ pasted.rows[1].style = "pipe"
              /\ pasted.rows[1].cols = << <<"5">>, TxtHello, TxtXinChao, TxtKnife>>)
              => SceneFields(out[1]) = <<Str005, TxtHello, TxtXinChao, TxtKnife>>

\* C10: the list convertRowsToScenes returns is ascending by the comparator,
\* compare(code[i], code[j]) <= 0 for i < j, and is a permutation of the
\* scenes built from the accepted rows.
C10_SortedPermutation ==
    scenesOut # <<>> =>
        LET out == scenesOut[1]
            built == buildScenes(rowsOut[1], nextId - Len(out), now)
        IN /\ \A i, j \in 1..Len(out) :
                 i < j => SortOrder(compare(out[i].code, out[j].code)) <= 0
           /\ Len(out) = Len(built)
           /\ Len(built) = Len(SelectSeq(pasted.rows, RowIncluded))
           /\ \A i \in 1..Len(built) :
                 Count(out, LAMBDA sc : sc = built[i]) = 1

C10_Witness ==
    /\ scenesOut # <<>>
    /\ Len(pasted.rows) = 2
    /\ pasted.rows[1].cols[1] = Str2_10
    /\ pasted.rows[2].cols[1] = Str2_9
    /\ Len(scenesOut[1]) = 2
    /\ scenesOut[1][1].code = <<"0", "0", "2", ".", "9">>
    /\ scenesOut[1][1].id = 2
    /\ scenesOut[1][2].code = <<"0", "0", "2", ".", "1", "0">>
    /\ scenesOut[1][2].id = 1


-----------------------------------------------------------------------------
(* The App: the mount effect, the import dialog, applyImport, and the      *)
(* store's handlers for read-settings, read-scenes and replace-scenes.     *)
(* A handler of the main process runs as one step; the renderer's code     *)
(* after an await runs as a later step.                                    *)

StrDir == <<"D">>
StrImage == PathA

\* scenes a document left by an earlier run holds
PriorScenes ==
    << [id |-> 1, code |-> <<"0", "0", "1">>, enText |-> TxtHello, viText |-> <<>>,
        keywords |-> <<>>, primaryImagePath |-> Some(StrImage),
        characterImage |-> TRUE, updatedAt |-> 1],
       [id |-> 2, code |-> <<"0", "0", "2">>, enText |-> <<>>, viText |-> TxtXinChao,
        keywords |-> TxtKnife, primaryImagePath |-> null,
        characterImage |-> FALSE, updatedAt |-> 1] >>

\* the file at start: none, an empty document, a document with scenes
PriorDisks ==
    { null,
      Some([settings |-> defaultSettings, scenes |-> <<>>]),
      Some([settings |-> [defaultSettings EXCEPT !.autosaveEnabled = TRUE,
                                                 !.saveDirectory = StrDir],
            scenes |-> PriorScenes]) }

\* tables the operator pastes into the import dialog
ImportTables ==
    { <<>>,
      << [style |-> "pipe", cols |-> <<Str2_10, TxtHello, TxtXinChao, TxtKnife>>],
         [style |-> "pipe", cols |-> <<Str2_9, TxtHello, TxtXinChao, TxtKnife>>] >>,
      << [style |-> "tab", cols |-> <<<<"5">>, TxtHello, <<>>, TxtKnife>>] >>,
      << [style |-> "pipe", cols |-> <<TxtAbc, TxtHello, TxtXinChao, TxtKnife>>] >> }

ImportTexts == { PastedText([rows |-> t, nl |-> <<"\n">>]) : t \in ImportTables }

Init ==
    /\ disk \in PriorDisks
    /\ cached = null
    /\ settings = defaultSettings
    /\ scenes = <<>>
    /\ showImport = FALSE
    /\ importInput = <<>>
    /\ importMarkdown = <<>>
    /\ loadPc = "mounted"
    /\ loaded = <<>>
    /\ calls = <<>>
    /\ debounceRef = 0
    /\ nextId = Len(PriorScenes) + 1
    /\ now = 1
    /\ CmpIdle /\ NormIdle /\ ConvIdle /\ OpsIdle

\* mount effect: await readSettings(), handled by the main process
ReadSettings ==
    /\ loadPc = "mounted"
    /\ LET ld == loadData(cached, disk) IN
         /\ cached' = ld.cached
         /\ disk' = ld.disk
         /\ loaded' = <<ld.cached[1].settings>>
    /\ loadPc' = "settings"
    /\ UNCHANGED <<opsVars, settings, scenes, showImport, importInput, importMarkdown,
                   calls, debounceRef, cmpVars, normVars, convVars, envVars>>

\* mount effect: await readScenes(), handled by the main process
ReadScenes ==
    /\ loadPc = "settings"
    /\ LET ld == loadData(cached, disk) IN
         /\ cached' = ld.cached
         /\ disk' = ld.disk
         /\ loaded' = Append(loaded, ld.cached[1].scenes)
    /\ loadPc' = "scenes"
    /\ UNCHANGED <<opsVars, settings, scenes, showImport, importInput, importMarkdown,
                   calls, debounceRef, cmpVars, normVars, convVars, envVars>>

\* mount effect: setSettings(savedSettings), setScenes(savedScenes)
LoadDone ==
    /\ loadPc = "scenes"
    /\ settings' = loaded[1]
    /\ scenes' = loaded[2]
    /\ loadPc' = "done"
    /\ UNCHANGED <<opsVars, loaded, showImport, importInput, importMarkdown, calls,
                   debounceRef, storeVars, cmpVars, normVars, convVars, envVars>>

OpenImport ==
    /\ ~showImport
    /\ showImport' = TRUE
    /\ UNCHANGED <<opsVars, settings, scenes, importInput, importMarkdown, loadPc, loaded,
                   calls, debounceRef, storeVars, cmpVars, normVars, convVars, envVars>>

CloseImport ==
    /\ showImport
    /\ showImport' = FALSE
    /\ UNCHANGED <<opsVars, settings, scenes, importInput, importMarkdown, loadPc, loaded,
                   calls, debounceRef, storeVars, cmpVars, normVars, convVars, envVars>>

\* handleImportInputChange: the textarea's new value, by typing or by a
\* paste (whose handleImportPaste sets importMarkdown first, and the change
\* event that follows sets it again)
ImportInputChange ==
    /\ showImport
    /\ \E value \in ImportTexts :
          /\ value # importInput
          /\ importInput' = value
          /\ importMarkdown' = buildMarkdown(parseRows(value))
    /\ UNCHANGED <<opsVars, settings, scenes, showImport, loadPc, loaded, calls,
                   debounceRef, storeVars, cmpVars, normVars, convVars, envVars>>

\* applyImport up to its await: the rows are parsed and converted, and
\* replace-scenes is invoked
ApplyImport ==
    /\ showImport
    /\ Len(calls) < MaxImports
    /\ LET rows == parseRows(IF importMarkdown # <<>> THEN importMarkdown ELSE importInput)
           scenesToSave == convertRowsToScenes(rows, nextId, now)
       IN /\ calls' = Append(calls, [scenes |-> scenesToSave, state |-> "sent",
                                     auto |-> settings.autosaveEnabled])
          /\ nextId' = nextId + Len(scenesToSave)
    /\ UNCHANGED <<opsVars, settings, scenes, showImport, importInput, importMarkdown,
                   loadPc, loaded, debounceRef, now, storeVars, cmpVars, normVars,
                   convVars>>

\* the calls the main process has not handled yet
Unhandled == {i \in 1..Len(calls) : calls[i].state = "sent"}
\* the calls whose reply the renderer has not taken yet
Unsettled == {i \in 1..Len(calls) : calls[i].state \in {"sent", "replied", "failed"}}

Least(S) == CHOOSE i \in S : \A j \in S : i <= j

\* replaceScenes in the main process, for the oldest call
ReplaceScenes ==
    /\ Unhandled # {}
    /\ LET i == Least(Unhandled)
           ld == loadData(cached, disk)
           data == Some(replaceScenes(ld.cached[1], calls[i].scenes))
       IN /\ cached' = data
          /\ disk' = persist(data, ld.disk)
          /\ calls' = [calls EXCEPT ![i].state = "replied"]
    /\ UNCHANGED <<opsVars, settings, scenes, showImport, importInput, importMarkdown,
                   loadPc, loaded, debounceRef, cmpVars, normVars, convVars, envVars>>

\* replaceScenes when fs.writeFile throws in persist: the cached document
\* has the scenes already, the file is as loadData left it
ReplaceScenesFails ==
    /\ Unhandled # {}
    /\ LET i == Least(Unhandled)
           ld == loadData(cached, disk)
           data == Some(replaceScenes(ld.cached[1], calls[i].scenes))
       IN /\ cached' = data
          /\ disk' = ld.disk
          /\ calls' = [calls EXCEPT ![i].state = "failed"]
    /\ UNCHANGED <<opsVars, settings, scenes, showImport, importInput, importMarkdown,
                   loadPc, loaded, debounceRef, cmpVars, normVars, convVars, envVars>>

\* applyImport after its await: setScenes(saved), setShowImport(false),
\* triggerAutosave()
ApplyImportDone ==
    /\ Unsettled # {}
    /\ LET i == Least(Unsettled) IN
         /\ calls[i].state = "replied"
         /\ scenes' = calls[i].scenes
         /\ showImport' = FALSE
         /\ debounceRef' = triggerAutosave(calls[i].auto, debounceRef)
         /\ calls' = [calls EXCEPT ![i].state = "done"]
    /\ UNCHANGED <<opsVars, settings, importInput, importMarkdown, loadPc, loaded,
                   storeVars, cmpVars, normVars, convVars, envVars>>

\* applyImport when the invoke rejects: nothing after the await runs
ApplyImportRejected ==
    /\ Unsettled # {}
    /\ LET i == Least(Unsettled) IN
         /\ calls[i].state = "failed"
         /\ calls' = [calls EXCEPT ![i].state = "rejected"]
    /\ UNCHANGED <<opsVars, settings, scenes, showImport, importInput, importMarkdown,
                   loadPc, loaded, debounceRef, storeVars, cmpVars, normVars,
                   convVars, envVars>>

\* time passes
Tick ==
    /\ now < MaxClock
    /\ now' = now + 1
    /\ UNCHANGED <<opsVars, nextId, storeVars, uiVars, cmpVars, normVars, convVars>>

Next ==
    \/ ReadSettings \/ ReadScenes \/ LoadDone
    \/ OpenImport \/ CloseImport \/ ImportInputChange
    \/ ApplyImport \/ ReplaceScenes \/ ReplaceScenesFails
    \/ ApplyImportDone \/ ApplyImportRejected
    \/ Tick

Spec == Init /\ [][Next]_vars

-----------------------------------------------------------------------------
(* The link check (App.tsx, the effect on [scenes]) and fileExists (db.ts) *)

Str001 == <<"0", "0", "1">>
Str002 == <<"0", "0", "2">>

MkScene(id, code, path, flag) ==
    [id |-> id, code |-> code, enText |-> TxtHello, viText |-> <<>>,
     keywords |-> <<>>, primaryImagePath |-> path, characterImage |-> flag,
     updatedAt |-> 1]

\* fileExists: fs.access succeeds on whatever is at the path
fileExists(fs, path) == fs[path] # "absent"

\* !scene.primaryImagePath
noPath(scene) == scene.primaryImagePath = null \/ scene.primaryImagePath = Some(<<>>)

\* entries[scene.id] = exists
brokenEntry_exists(exists) == exists

\* entries[scene.id] = !exists
brokenEntry(exists) == ~exists

\* the scene sets a render brings
LinkSceneSets ==
    { <<>>,
      << MkScene(1, Str001, null, FALSE) >>,
      << MkScene(1, Str001, Some(PathA), FALSE), MkScene(2, Str002, null, FALSE) >>,
      << MkScene(1, Str001, Some(PathA), FALSE), MkScene(2, Str002, Some(PathB), TRUE) >> }

InitLinks ==
    /\ files \in [Paths -> {"absent", "present"}]
    /\ scenes = <<>>
    /\ linkRuns = <<>>
    /\ missingLinks = <<>>
    /\ ExportIdle /\ TimersIdle /\ MutIdle
    /\ disk = null /\ cached = null /\ settings = defaultSettings
    /\ showImport = FALSE /\ importInput = <<>> /\ importMarkdown = <<>>
    /\ loadPc = "mounted" /\ loaded = <<>> /\ calls = <<>> /\ debounceRef = 0
    /\ nextId = 1 /\ now = 1
    /\ CmpIdle /\ NormIdle /\ ConvIdle

\* a render with a new scenes value: the effect runs; with scenes it starts
\* checkLinks, which asks fileExists for every scene that has a path, and
\* without it sets the empty map
SetScenes ==
    /\ Len(linkRuns) < MaxLinkRuns
    /\ \E next \in LinkSceneSets :
          /\ next # scenes
          /\ scenes' = next
          /\ IF Len(next) > 0
             THEN /\ linkRuns' = Append(linkRuns,
                        [snap |-> next,
                         asked |-> {k \in 1..Len(next) : ~noPath(next[k])},
                         answers |-> <<>>, entries |-> <<>>, done |-> FALSE])
                  /\ UNCHANGED missingLinks
             ELSE /\ missingLinks' = <<>>
                  /\ UNCHANGED linkRuns
    /\ UNCHANGED <<files, exportVars, timerVars, mutVars, cmpVars, normVars, convVars, storeVars, envVars, settings,
                   showImport, importInput, importMarkdown, loadPc, loaded, calls,
                   debounceRef>>

\* file-exists answers one request of a run, and the callback of that scene
\* goes on: entries[scene.id] = !exists
FileExists ==
    /\ \E r \in 1..Len(linkRuns) : \E k \in linkRuns[r].asked :
          LET run == linkRuns[r]
              exists == fileExists(files, run.snap[k].primaryImagePath[1])
          IN linkRuns' = [linkRuns EXCEPT ![r] =
                 [run EXCEPT !.asked = run.asked \ {k},
                             !.answers = (k :> exists) @@ run.answers,
                             !.entries = (run.snap[k].id :> brokenEntry(exists))
                                            @@ run.entries]]
    /\ UNCHANGED <<files, exportVars, timerVars, mutVars, missingLinks, cmpVars, normVars, convVars, storeVars,
                   uiVars, envVars>>

\* Promise.all has settled: setMissingLinks(entries)
CheckLinksDone ==
    /\ \E r \in 1..Len(linkRuns) :
          /\ ~linkRuns[r].done
          /\ linkRuns[r].asked = {}
          /\ missingLinks' = linkRuns[r].entries
          /\ linkRuns' = [linkRuns EXCEPT ![r].done = TRUE]
    /\ UNCHANGED <<files, exportVars, timerVars, mutVars, cmpVars, normVars, convVars, storeVars, uiVars,
                   envVars>>

\* what can be at a path: nothing, a file, a file that cannot be read
FileStates == {"absent", "present", "unreadable"}

\* a file is moved away, deleted, put back or locked outside the program
FileChange ==
    /\ \E p \in Paths : \E st \in FileStates \ {files[p]} :
          files' = [files EXCEPT ![p] = st]
    /\ UNCHANGED <<linkVars, exportVars, timerVars, mutVars, cmpVars, normVars,
                   convVars, storeVars, uiVars, envVars>>

NextLinks == SetScenes \/ FileExists \/ CheckLinksDone \/ FileChange

SpecLinks == InitLinks /\ [][NextLinks]_vars

markedBroken(m, id) == id \in DOMAIN m /\ m[id]

\* C11: when a link check completes, the map it sets marks a scene of its
\* scene set broken exactly when the scene's primaryImagePath is non-null and
\* the existence check for that path returned false; a scene without a path
\* is not marked.
C11_BrokenIffCheckFalse ==
    [][\A r \in 1..Len(linkRuns) :
          (~linkRuns[r].done /\ linkRuns'[r].done) =>
             \A k \in 1..Len(linkRuns[r].snap) :
                LET scene == linkRuns[r].snap[k] IN
                markedBroken(missingLinks', scene.id) <=>
                   /\ scene.primaryImagePath # null
                   /\ k \in DOMAIN linkRuns[r].answers
                   /\ linkRuns[r].answers[k] = FALSE]_vars

\* a completed check of two scenes with paths marked one broken and one not,
\* and a completed check left a scene without a path unmarked
C11_Witness ==
    /\ Len(linkRuns) = 2
    /\ linkRuns[1].done /\ linkRuns[2].done
    /\ Len(linkRuns[1].snap) = 2
    /\ linkRuns[1].snap[2].primaryImagePath = null
    /\ ~markedBroken(linkRuns[1].entries, 2)
    /\ Len(linkRuns[2].snap) = 2
    /\ DOMAIN linkRuns[2].answers = {1, 2}
    /\ linkRuns[2].answers[1] = FALSE /\ linkRuns[2].answers[2] = TRUE
    /\ missingLinks = linkRuns[2].entries
    /\ markedBroken(missingLinks, 1) /\ ~markedBroken(missingLinks, 2)

\* C24: once every checkLinks that was started has completed, the
\* link-broken map is the one of the latest scene set: the entries of the
\* last run, or the empty map when the latest scene set is empty.
C24_LatestCheckWins ==
    (\A r \in 1..Len(linkRuns) : linkRuns[r].done)
    => missingLinks = IF scenes = <<>> THEN <<>>
                      ELSE linkRuns[Len(linkRuns)].entries

-----------------------------------------------------------------------------
(* The export: handleExport and generateExportZip (App.tsx), readFileBytes *)
(* and writeZipFile (db.ts)                                                *)

\* String.prototype.lastIndexOf: the index from 0, or -1
lastIndexOf(str, c) ==
    LET at == {i \in 1..Len(str) : str[i] = c} IN
    IF at = {} THEN -1 ELSE (CHOOSE i \in at : \A j \in at : j <= i) - 1

\* String.prototype.slice(start): a negative start counts from the end
slice(str, start) ==
    LET from == IF start < 0
                THEN (IF Len(str) + start < 0 THEN 0 ELSE Len(str) + start)
                ELSE (IF start > Len(str) THEN Len(str) ELSE start)
    IN SubSeq(str, from + 1, Len(str))

\* the name of a scene's entry made from the scene's identifier
exportFilename_byId(scene) ==
    IF noPath(scene) THEN <<>>
    ELSE LET path == scene.primaryImagePath[1]
         IN <<"s">> \o padStart(<<>>, scene.id, "i") \o slice(path, lastIndexOf(path, "."))

\* the name of a scene's entry: code and the path from its last '.'
exportFilename(scene) ==
    IF noPath(scene) THEN <<>>
    ELSE LET path == scene.primaryImagePath[1]
         IN scene.code \o slice(path, lastIndexOf(path, "."))

\* JSON.stringify of a string: quotes around it, quotes and backslashes and
\* line breaks inside it escaped
jsonStringify(str) ==
    LET esc(c) == CASE c = "\"" -> <<"\\", "\"">>
                    [] c = "\\" -> <<"\\", "\\">>
                    [] c = "\n" -> <<"\\", "n">>
                    [] c = "\r" -> <<"\\", "r">>
                    [] c = "\t" -> <<"\\", "t">>
                    [] OTHER -> <<c>>
    IN <<"\"">> \o join([i \in 1..Len(str) |-> esc(str[i])], <<>>) \o <<"\"">>

CsvHeader ==
    <<"c", "o", "d", "e", ",", "f", "i", "l", "e", "n", "a", "m", "e", ",",
      "e", "n", "T", "e", "x", "t", ",", "v", "i", "T", "e", "x", "t", ",",
      "k", "e", "y", "w", "o", "r", "d", "s", ",", "C", "h", "a", "r", "a",
      "c", "t", "e", "r", "I", "m", "a", "g", "e">>

StrTRUE == <<"T", "R", "U", "E">>
StrFALSE == <<"F", "A", "L", "S", "E">>

\* one line of mapping.csv: the six fields joined by ','
csvRow(scene) ==
    scene.code \o <<",">> \o exportFilename(scene)
       \o <<",">> \o jsonStringify(scene.enText)
       \o <<",">> \o jsonStringify(scene.viText)
       \o <<",">> \o jsonStringify(scene.keywords)
       \o <<",">> \o (IF scene.characterImage THEN StrTRUE ELSE StrFALSE)

\* readFileBytes: the bytes of the file, which are told by its path here;
\* fs.readFile throws when there is no file or it cannot be read
canRead(fs, path) == fs[path] = "present"

\* messages of the errors Node throws
ErrRead == <<"E", "N", "O", "E", "N", "T">>
ErrWrite == <<"E", "A", "C", "C", "E", "S">>

\* the messages of the status, their letters outside Latin-1 without marks
MsgSaving ==
    <<"D", "a", "n", "g", " ", "l", "u", "u", ".", ".", ".">>
MsgSaved ==
    <<"D", "ã", " ", "l", "u", "u", " ", "l", "ú", "c", " ">>
MsgError ==
    <<"L", "o", "i", " ", "l", "u", "u", ":", " ">>

\* new Date(now).toLocaleTimeString('vi-VN'), which the reading of the clock
\* stands for
timeString(t) == padStart(<<>>, t, "'")

savingStatus == [state |-> "saving", message |-> MsgSaving]
savedStatus(t) == [state |-> "saved", message |-> MsgSaved \o timeString(t)]

\* the catch of handleExport leaving the status as it was
errorStatus_silent(message) == savingStatus

\* setExportStatus in the catch of handleExport
errorStatus(message) == [state |-> "error", message |-> MsgError \o message]

\* generateExportZip from scene i up to its next await: the line of each
\* scene is pushed, a scene with a path stops the loop at fileExists, and
\* after the last scene mapping.csv is added and the archive generated
RECURSIVE zipFrom(_, _)
zipFrom(run, i) ==
    IF i > Len(run.snap)
    THEN [run EXCEPT !.i = i, !.mapping = Some(run.csvRows), !.pc = "write"]
    ELSE LET pushed == [run EXCEPT !.i = i,
                                   !.csvRows = Append(@, csvRow(run.snap[i]))]
         IN IF noPath(run.snap[i]) THEN zipFrom(pushed, i + 1)
            ELSE [pushed EXCEPT !.pc = "exists"]

\* handleExport from setExportStatus('saving') on
startSaving(run) ==
    zipFrom([run EXCEPT !.status = savingStatus, !.csvRows = <<CsvHeader>>], 1)

\* setMissing(missingFiles), when generateExportZip has got to its end
warningsAfter(run, warnings) == IF run.pc = "write" THEN run.missingFiles ELSE warnings

\* saveSettings of db.ts: data.settings = settings, then persist
saveSettingsDoc(data, next) == [data EXCEPT !.settings = next]

\* the scene lists an export is asked for
ExportSceneSets ==
    { << MkScene(1, Str001, Some(PathA), TRUE), MkScene(2, Str002, Some(PathB), FALSE) >>,
      << MkScene(1, Str001, Some(PathA), FALSE), MkScene(2, Str001, Some(PathB), FALSE) >>,
      << MkScene(1, Str001, null, TRUE), MkScene(2, Str002, Some(PathA), TRUE) >>,
      << MkScene(1, Str001, Some(PathA), TRUE), MkScene(2, Str001, Some(PathB), FALSE) >> }

ExportSettings == { defaultSettings, [defaultSettings EXCEPT !.saveDirectory = StrDir] }

\* the App after its mount effect, with a document that has scenes
InitExport ==
    /\ files \in [Paths -> FileStates]
    /\ scenes \in ExportSceneSets
    /\ settings \in ExportSettings
    /\ cached = Some([settings |-> settings, scenes |-> scenes])
    /\ disk = cached
    /\ loadPc = "done"
    /\ loaded = <<settings, scenes>>
    /\ showImport = FALSE /\ importInput = <<>> /\ importMarkdown = <<>>
    /\ calls = <<>> /\ debounceRef = 0
    /\ nextId = 3 /\ now = 1
    /\ ExportIdle /\ LinksIdle /\ TimersIdle /\ MutIdle
    /\ CmpIdle /\ NormIdle /\ ConvIdle

\* what no step of an export changes
exportFrame ==
    <<linkVars, timerVars, mutVars, cmpVars, normVars, convVars, scenes, showImport,
      importInput, importMarkdown, loadPc, loaded, calls, debounceRef, nextId>>

\* handleExport as called with the settings and scenes of a render
newExport(isAuto, st, scs) ==
    LET run == [auto |-> isAuto, settings |-> st, snap |-> scs,
                dir |-> st.saveDirectory, pc |-> "pick", i |-> 0,
                sceneFolder |-> <<>>, characterFolder |-> <<>>, csvRows |-> <<>>,
                missingFiles |-> <<>>, mapping |-> null, answers |-> <<>>,
                status |-> idleStatus, cause |-> "none", sent |-> st]
    IN IF st.saveDirectory = <<>> THEN run ELSE startSaving(run)

\* the pcs at which a call of handleExport has returned
EndedPcs == {"cancelled", "rejected", "failed", "done"}

InFlight == {e \in 1..Len(exports) : exports[e].pc \notin EndedPcs}

\* the export button (isAuto false) or the autosave timer (isAuto true)
\* calls handleExport; without a save directory it opens the directory picker
HandleExport ==
    /\ Len(exports) < MaxExports
    /\ InFlight = {}
    /\ \E isAuto \in BOOLEAN :
          \E run \in {newExport(isAuto, settings, scenes)} :
          /\ exports' = Append(exports, run)
          /\ exportStatus' = IF run.pc = "pick" THEN exportStatus ELSE run.status
          /\ exportWarnings' = warningsAfter(run, exportWarnings)
    /\ UNCHANGED <<exportFrame, files, zipFile, settings, storeVars, now>>

\* the operator answers the directory picker; with a directory,
\* saveSettings({...settings, saveDirectory: picked}) sets the App's settings
\* and invokes save-settings
PickDirectory(e) ==
    /\ exports[e].pc = "pick"
    /\ \E picked \in {null, Some(StrDir)} :
          IF picked = null
          THEN /\ exports' = [exports EXCEPT ![e].pc = "cancelled"]
               /\ UNCHANGED settings
          ELSE LET next == [exports[e].settings EXCEPT !.saveDirectory = picked[1]] IN
               /\ exports' = [exports EXCEPT ![e].pc = "saveDir", ![e].dir = picked[1],
                                             ![e].sent = next]
               /\ settings' = next
    /\ UNCHANGED <<exportFrame, files, exportStatus, exportWarnings, zipFile,
                   storeVars, now>>

\* save-settings for the picked directory is handled, or fails in persist;
\* handleExport goes on to setExportStatus('saving') and generateExportZip
SaveDirectory(e) ==
    /\ exports[e].pc = "saveDir"
    /\ \E ok \in BOOLEAN :
          \E run \in {startSaving(exports[e])} :
          LET ld == loadData(cached, disk)
              data == Some(saveSettingsDoc(ld.cached[1], exports[e].sent))
          IN /\ cached' = data
             /\ IF ok
                THEN /\ disk' = persist(data, ld.disk)
                     /\ exports' = [exports EXCEPT ![e] = run]
                     /\ exportStatus' = run.status
                     /\ exportWarnings' = warningsAfter(run, exportWarnings)
                ELSE /\ disk' = ld.disk
                     /\ exports' = [exports EXCEPT ![e].pc = "rejected"]
                     /\ UNCHANGED <<exportStatus, exportWarnings>>
    /\ UNCHANGED <<exportFrame, files, zipFile, settings, now>>

\* file-exists answers for scene i: a missing file goes to missingFiles and
\* the loop goes on, for a file that exists read-file-bytes is invoked
ExportFileExists(e) ==
    /\ exports[e].pc = "exists"
    /\ LET run == exports[e]
           k == run.i
           path == run.snap[k].primaryImagePath[1]
           exists == fileExists(files, path)
           answered == [run EXCEPT !.answers = (k :> exists) @@ @]
       IN \E next \in {IF exists THEN [answered EXCEPT !.pc = "read"]
                        ELSE zipFrom([answered EXCEPT
                                        !.missingFiles = Append(@, path)], k + 1)} :
          /\ exports' = [exports EXCEPT ![e] = next]
          /\ exportWarnings' = warningsAfter(next, exportWarnings)
    /\ UNCHANGED <<exportFrame, files, exportStatus, zipFile, settings, storeVars, now>>

\* read-file-bytes answers for scene i: the bytes go into scenes_images and,
\* for a character scene, into character_images; when the read throws,
\* generateExportZip rejects and the catch of handleExport sets the status
ExportReadFile(e) ==
    /\ exports[e].pc = "read"
    /\ LET run == exports[e]
           k == run.i
           scene == run.snap[k]
           path == scene.primaryImagePath[1]
       IN \E filename \in {exportFilename(scene)} :
          \E filed \in {[run EXCEPT
                           !.sceneFolder = (filename :> path) @@ @,
                           !.characterFolder =
                               IF scene.characterImage THEN (filename :> path) @@ @
                               ELSE @]} :
          \E next \in {IF canRead(files, path) THEN zipFrom(filed, k + 1)
                        ELSE [run EXCEPT !.pc = "failed", !.cause = "read",
                                         !.status = errorStatus(ErrRead)]} :
          /\ exports' = [exports EXCEPT ![e] = next]
          /\ exportWarnings' = warningsAfter(next, exportWarnings)
          /\ exportStatus' = IF next.pc = "failed" THEN next.status ELSE exportStatus
    /\ UNCHANGED <<exportFrame, files, zipFile, settings, storeVars, now>>

\* the archive a run has built
archiveOf(run) ==
    [sceneFolder |-> run.sceneFolder, characterFolder |-> run.characterFolder,
     mapping |-> run.mapping]

\* write-file is handled: the archive is written to the directory and the
\* status is 'saved', after which a manual export invokes save-settings with
\* lastSavedAt; or writeZipFile throws and the catch sets the status
WriteZip(e) ==
    /\ exports[e].pc = "write"
    /\ \E ok \in BOOLEAN :
          LET run == exports[e] IN
          IF ok
          THEN /\ zipFile' = Some(archiveOf(run))
               /\ exportStatus' = savedStatus(now)
               /\ LET next == [run.settings EXCEPT !.lastSavedAt = Some(now)] IN
                    /\ exports' = [exports EXCEPT
                                     ![e].status = savedStatus(now),
                                     ![e].pc = IF run.auto THEN "done" ELSE "saveLast",
                                     ![e].sent = IF run.auto THEN @ ELSE next]
                    /\ settings' = IF run.auto THEN settings ELSE next
          ELSE /\ exportStatus' = errorStatus(ErrWrite)
               /\ exports' = [exports EXCEPT ![e].status = errorStatus(ErrWrite),
                                             ![e].pc = "failed", ![e].cause = "write"]
               /\ UNCHANGED <<zipFile, settings>>
    /\ UNCHANGED <<exportFrame, files, exportWarnings, storeVars, now>>

\* save-settings for lastSavedAt is handled, or fails in persist and the
\* catch sets the status
SaveLastSavedAt(e) ==
    /\ exports[e].pc = "saveLast"
    /\ \E ok \in BOOLEAN :
          LET run == exports[e]
              ld == loadData(cached, disk)
              data == Some(saveSettingsDoc(ld.cached[1], run.sent))
          IN /\ cached' = data
             /\ IF ok
                THEN /\ disk' = persist(data, ld.disk)
                     /\ exports' = [exports EXCEPT ![e].pc = "done"]
                     /\ UNCHANGED exportStatus
                ELSE /\ disk' = ld.disk
                     /\ exportStatus' = errorStatus(ErrWrite)
                     /\ exports' = [exports EXCEPT ![e].status = errorStatus(ErrWrite),
                                                   ![e].pc = "failed",
                                                   ![e].cause = "settings"]
    /\ UNCHANGED <<exportFrame, files, exportWarnings, zipFile, settings, now>>

ExportStep(e) ==
    \/ PickDirectory(e) \/ SaveDirectory(e) \/ ExportFileExists(e)
    \/ ExportReadFile(e) \/ WriteZip(e) \/ SaveLastSavedAt(e)

NextExport ==
    \/ HandleExport
    \/ \E e \in 1..Len(exports) : ExportStep(e)
    \/ FileChange

SpecExport == InitExport /\ [][NextExport]_vars

\* the scenes of a run whose existence check answered as given
Answered(run, answer) ==
    {k \in DOMAIN run.answers : run.answers[k] = answer}

\* C12: when generateExportZip has completed for N scenes, of which M have
\* an image that exists and K an image that does not, scenes_images has
\* exactly M entries, character_images one entry for each of the M that is a
\* character scene, the missing list has length K and mapping.csv has N
\* lines after its header.
C12_ExportCounts ==
    \A e \in 1..Len(exports) :
       LET run == exports[e] IN
       run.mapping # null =>
          /\ Cardinality(DOMAIN run.sceneFolder) = Cardinality(Answered(run, TRUE))
          /\ Cardinality(DOMAIN run.characterFolder) =
                Cardinality({k \in Answered(run, TRUE) : run.snap[k].characterImage})
          /\ Len(run.missingFiles) = Cardinality(Answered(run, FALSE))
          /\ Len(run.mapping[1]) = Len(run.snap) + 1

\* C13: in a completed export every scene with a non-null primaryImagePath
\* has an entry in scenes_images that holds the bytes of its own file, or has
\* its path in the missing list.
C13_NoSceneDropped ==
    \A e \in 1..Len(exports) :
       LET run == exports[e] IN
       run.mapping # null =>
          \A k \in 1..Len(run.snap) :
             LET scene == run.snap[k] IN
             scene.primaryImagePath # null =>
                \/ /\ exportFilename(scene) \in DOMAIN run.sceneFolder
                   /\ run.sceneFolder[exportFilename(scene)] = scene.primaryImagePath[1]
                \/ \E m \in 1..Len(run.missingFiles) :
                      run.missingFiles[m] = scene.primaryImagePath[1]

\* C14: no export fails because of the image of one scene: a call of
\* handleExport never ends in the catch on account of readFileBytes.
C14_NoFailureOnImage ==
    \A e \in 1..Len(exports) :
       exports[e].pc = "failed" => exports[e].cause # "read"

\* C22: in a completed export character_images has an entry under the name
\* of a scene exactly when the scene is a character scene whose image was
\* found, and that entry holds the bytes of the entry of the same name in
\* scenes_images.
C22_CharacterCopies ==
    \A e \in 1..Len(exports) :
       LET run == exports[e] IN
       run.mapping # null =>
          \A k \in 1..Len(run.snap) :
             LET scene == run.snap[k]
                 name == exportFilename(scene)
             IN scene.primaryImagePath # null =>
                  /\ name \in DOMAIN run.characterFolder
                        <=> (scene.characterImage /\ k \in Answered(run, TRUE))
                  /\ name \in DOMAIN run.characterFolder =>
                        /\ name \in DOMAIN run.sceneFolder
                        /\ run.characterFolder[name] = run.sceneFolder[name]

\* the filename field of a line of mapping.csv
filenameField(row) == split(row, {","})[2]

\* C29: in a completed export the line of a scene in mapping.csv has a
\* filename exactly when scenes_images has an entry of that name that holds
\* the image of the scene.
C29_ManifestAgrees ==
    \A e \in 1..Len(exports) :
       LET run == exports[e] IN
       run.mapping # null =>
          \A k \in 1..Len(run.snap) :
             LET scene == run.snap[k]
                 name == filenameField(run.mapping[1][k + 1])
             IN name # <<>>
                  <=> /\ name \in DOMAIN run.sceneFolder
                      /\ Some(run.sceneFolder[name]) = scene.primaryImagePath

\* C27: after a manual export that began without a save directory, for which
\* the operator picked a directory, and that ended with both save-settings
\* done, the settings in the cached document and in the file have that
\* directory as saveDirectory and the time of the export as lastSavedAt.
C27_BothSettingsKept ==
    \A e \in 1..Len(exports) :
       LET run == exports[e] IN
       (e = Len(exports) /\ ~run.auto /\ run.pc = "done"
          /\ run.settings.saveDirectory = <<>>)
       => /\ cached[1].settings.saveDirectory = run.dir
          /\ cached[1].settings.lastSavedAt = run.sent.lastSavedAt
          /\ disk[1].settings.saveDirectory = run.dir
          /\ disk[1].settings.lastSavedAt = run.sent.lastSavedAt

-----------------------------------------------------------------------------
(* Exports that overlap: handleExport is called again, by the button or by *)
(* the autosave timer, while an earlier call is still running.  The main   *)
(* process answers every invoke and the renderer resumes every await, which *)
(* is the fairness of the steps.                                           *)

HandleExportDuring ==
    /\ Len(exports) < MaxExports
    /\ InFlight # {}
    /\ \E isAuto \in BOOLEAN :
          \E run \in {newExport(isAuto, settings, scenes)} :
          /\ exports' = Append(exports, run)
          /\ exportStatus' = IF run.pc = "pick" THEN exportStatus ELSE run.status
          /\ exportWarnings' = warningsAfter(run, exportWarnings)
    /\ UNCHANGED <<exportFrame, files, zipFile, settings, storeVars, now>>

InitExportFair ==
    /\ InitExport
    /\ scenes = << MkScene(1, Str001, Some(PathA), TRUE), MkScene(2, Str002, Some(PathB), FALSE) >>

\* the steps of run e that follow an await
AwaitedStep(e) ==
    /\ e \in 1..Len(exports)
    /\ \/ SaveDirectory(e) \/ ExportFileExists(e) \/ ExportReadFile(e)
       \/ WriteZip(e) \/ SaveLastSavedAt(e)

NextExportFair ==
    \/ HandleExport
    \/ HandleExportDuring
    \/ \E e \in 1..Len(exports) : ExportStep(e)
    \/ Tick

SpecExportFair ==
    /\ InitExportFair
    /\ [][NextExportFair]_vars
    /\ \A e \in 1..MaxExports : WF_vars(AwaitedStep(e))

endsWith(str, tail) ==
    Len(str) >= Len(tail) /\ SubSeq(str, Len(str) - Len(tail) + 1, Len(str)) = tail

\* the state of the status that call e of handleExport set last
statusOf(e) == IF e <= Len(exports) THEN exports[e].status.state ELSE "idle"

\* C17: every call of handleExport that has set the status 'saving' later
\* sets 'saved' or 'error', whatever other calls run meanwhile; when
\* write-file fails the call sets 'error' with the message of the failure,
\* and that step leaves lastSavedAt, in the App and in the store, as it was.
C17_ExportEnds ==
    /\ \A e \in 1..MaxExports :
          (statusOf(e) = "saving") ~> (statusOf(e) \in {"saved", "error"})
    /\ [][\A e \in 1..Len(exports) :
             (exports[e].pc = "write" /\ exports'[e].pc = "failed") =>
                /\ exports'[e].status.state = "error"
                /\ endsWith(exports'[e].status.message, ErrWrite)
                /\ exportStatus' = exports'[e].status
                /\ settings'.lastSavedAt = settings.lastSavedAt
                /\ cached' = cached /\ disk' = disk]_vars

\* an export failed on write-file while a later call, started during it,
\* saved its archive and its lastSavedAt
C17_Witness ==
    /\ Len(exports) = 2
    /\ exports[1].pc = "failed" /\ exports[1].cause = "write"
    /\ exports[1].status.state = "error"
    /\ exports[2].pc = "done" /\ ~exports[2].auto
    /\ exports[2].status.state = "saved"
    /\ exportStatus.state = "error"
    /\ settings.lastSavedAt # null

-----------------------------------------------------------------------------
(* The store under mutations that overlap: update-scene, toggle-character, *)
(* attach-scene-image and replace-scenes as the main process handles them   *)

\* most mutations invoked in a behaviour
MaxOps == 2

TxtNew == <<"n", "e", "w">>

\* the text fields of a scene the editor patches
PatchFields == {"enText", "viText"}

\* the scenes of the document when the mutations begin
StoreScenes ==
    << MkScene(1, Str001, null, FALSE), MkScene(2, Str002, null, FALSE) >>

\* the scenes an import replaces them with
ImportedScenes == << MkScene(3, Str001, null, FALSE) >>

DigitChar(n) == <<"0", "1", "2", "3", "4", "5", "6", "7", "8", "9">>[n + 1]

\* path.join(assetDir(), `${sceneId}_${Date.now()}.${ext}`)
assetPath(sceneId, t) == <<DigitChar(sceneId), "_", DigitChar(t), ".", "p", "n", "g">>

\* the App after its mount effect, the store holding StoreScenes
InitStore ==
    /\ scenes = StoreScenes
    /\ settings = defaultSettings
    /\ cached = Some([settings |-> settings, scenes |-> scenes])
    /\ disk = cached
    /\ objects = scenes
    /\ live = [k \in 1..Len(scenes) |-> k]
    /\ ops = <<>> /\ replies = <<>> /\ assets = {}
    /\ CopyIdle
    /\ docs = <<>> /\ cachedRef = 0
    /\ loadPc = "done"
    /\ loaded = <<settings, scenes>>
    /\ showImport = FALSE /\ importInput = <<>> /\ importMarkdown = <<>>
    /\ calls = <<>> /\ debounceRef = 0
    /\ nextId = 4 /\ now = 2
    /\ files = [p \in Paths |-> "absent"]
    /\ ExportIdle /\ LinksIdle /\ TimersIdle
    /\ CmpIdle /\ NormIdle /\ ConvIdle

storeFrame ==
    <<files, linkVars, cmpVars, normVars, convVars, envVars, docs, cachedRef,
      copyVars, showImport, importInput, importMarkdown, loadPc, loaded, calls>>

\* the idle window of the autosave, 10000 ms, in ticks of the clock
IdleWindow == 2

\* triggerAutosave without window.clearTimeout
setTimer_keep(auto, ref, pending, t, st, scs) ==
    IF ~auto THEN pending
    ELSE pending \cup {[id |-> ref + 1, due |-> t + IdleWindow,
                        settings |-> st, scenes |-> scs]}

\* triggerAutosave, as to the timers: the timer whose handle debounceRef
\* holds is cleared and one is set for handleExport(true) of the render
\* with settings st and scenes scs
setTimer(auto, ref, pending, t, st, scs) ==
    IF ~auto THEN pending
    ELSE {tm \in pending : tm.id # ref}
            \cup {[id |-> ref + 1, due |-> t + IdleWindow,
                   settings |-> st, scenes |-> scs]}

\* an invocation of a store channel by the renderer; the handler that awaits
\* it is of the render with the settings and scenes of that moment
newOp(kind, sceneId, field, scene, value, list) ==
    [kind |-> kind, id |-> sceneId, field |-> field, scene |-> scene,
     value |-> value, list |-> list, auto |-> settings.autosaveEnabled,
     settings |-> settings, snap |-> scenes,
     pc |-> "sent", refs |-> <<>>, doc |-> 0,
     file |-> <<>>, content |-> null, result |-> <<>>]

\* scenes.find((item) => item.id === sceneId): the first index, 0 for none
find(list, sceneId) ==
    IF \E k \in 1..Len(list) : list[k].id = sceneId
    THEN CHOOSE k \in 1..Len(list) :
            /\ list[k].id = sceneId
            /\ \A j \in 1..(k - 1) : list[j].id # sceneId
    ELSE 0

\* updateSceneField: the scene as the App holds it, with the patch and
\* updatedAt, is sent to update-scene
UpdateSceneField(sceneId, field) ==
    /\ Len(ops) < MaxOps
    /\ find(scenes, sceneId) # 0
    /\ LET scene == scenes[find(scenes, sceneId)]
           next == [scene EXCEPT ![field] = TxtNew, !.updatedAt = now]
       IN ops' = Append(ops, newOp("update", sceneId, field, next, FALSE, <<>>))
    /\ UNCHANGED <<storeFrame, exportVars, timerVars, storeVars, settings, scenes,
                   debounceRef, replies, objects, live, assets>>

\* handleToggleCharacter with the checkbox's new value
HandleToggleCharacter(sceneId) ==
    /\ Len(ops) < MaxOps
    /\ find(scenes, sceneId) # 0
    /\ LET value == ~scenes[find(scenes, sceneId)].characterImage
       IN ops' = Append(ops, newOp("toggle", sceneId, "characterImage", <<>>, value, <<>>))
    /\ UNCHANGED <<storeFrame, exportVars, timerVars, storeVars, settings, scenes,
                   debounceRef, replies, objects, live, assets>>

\* handleDropImage with an image file
HandleDropImage(sceneId) ==
    /\ Len(ops) < MaxOps
    /\ find(scenes, sceneId) # 0
    /\ ops' = Append(ops, newOp("attach", sceneId, "primaryImagePath", <<>>, FALSE, <<>>))
    /\ UNCHANGED <<storeFrame, exportVars, timerVars, storeVars, settings, scenes,
                   debounceRef, replies, objects, live, assets>>

\* the codes of the rows an import is made of: more than three digits,
\* both separators, white space of a tab cell, and codes that are no numbers
ImportCodes ==
    { <<"1", "2", "3", "4", "-", "5">>, <<"7", ".", "1", "-", "2">>, <<"7", " ">>,
      <<"1", "a">>, <<"1", ".", ".", "2">> }

\* convertRowsToScenes for a table of one row
importedRow(rawCode, t) ==
    convertRowsToScenes(<< <<rawCode, TxtHello, <<>>, <<>>>> >>, 3, t)

\* applyImport for an input that converts to ImportedScenes, or for a row
\* with one of ImportCodes
ApplyImportScenes ==
    /\ Len(ops) < MaxOps
    /\ \A e \in 1..Len(ops) : ops[e].kind # "replace"
    /\ \E list \in {ImportedScenes} \cup {importedRow(c, now) : c \in ImportCodes} :
          ops' = Append(ops, newOp("replace", 0, "none", <<>>, FALSE, list))
    /\ UNCHANGED <<storeFrame, exportVars, timerVars, storeVars, settings, scenes,
                   debounceRef, replies, objects, live, assets>>

\* the autosave checkbox: saveSettings({ ...settings, autosaveEnabled }) sets
\* the App's settings and invokes save-settings
SaveSettings ==
    /\ Len(ops) < MaxOps
    /\ LET next == [settings EXCEPT !.autosaveEnabled = ~@] IN
         /\ settings' = next
         /\ ops' = Append(ops, newOp("settings", 0, "none", <<>>, next, <<>>))
    /\ UNCHANGED <<storeFrame, exportVars, timerVars, storeVars, scenes, debounceRef,
                   replies, objects, live, assets>>

\* data.scenes.map((item) => (item.id === scene.id ? scene : item))
updateScene_moveLast(list, scene) ==
    SelectSeq(list, LAMBDA item : item.id # scene.id) \o <<scene>>

updateScene(list, scene) ==
    [k \in 1..Len(list) |-> IF list[k].id = scene.id THEN scene ELSE list[k]]

\* a scene object is assigned to: data.scenes shows it where it holds the object
assign(doc, refs, ref, value) ==
    [doc EXCEPT !.scenes = [k \in 1..Len(@) |-> IF refs[k] = ref THEN value ELSE @[k]]]

\* the invocations the main process has not begun to handle
Unreceived == {e \in 1..Len(ops) : ops[e].pc = "sent"}

\* the handler of an invocation runs up to its first file-system call:
\* loadData returns the cached document, the handler finds or replaces the
\* scene, and persist or attachSceneImage calls ensureDir
Receive(e) ==
    /\ Unreceived # {}
    /\ e = Least(Unreceived)
    /\ LET op == ops[e]
           data == loadData(cached, disk).cached[1]
           k == find(data.scenes, op.id)
           fresh == Len(objects) + 1
       IN CASE op.kind = "update" ->
                 /\ objects' = Append(objects, op.scene)
                 /\ live' = [j \in 1..Len(live) |->
                               IF data.scenes[j].id = op.id THEN fresh ELSE live[j]]
                 /\ cached' = Some([data EXCEPT !.scenes = updateScene(@, op.scene)])
                 /\ ops' = [ops EXCEPT ![e].pc = "mkdir", ![e].refs = <<fresh>>]
            [] op.kind = "toggle" /\ k = 0 ->
                 /\ ops' = [ops EXCEPT ![e].pc = "thrown"]
                 /\ UNCHANGED <<objects, live, cached>>
            [] op.kind = "toggle" /\ k # 0 ->
                 LET scene == [objects[live[k]] EXCEPT !.characterImage = op.value,
                                                       !.updatedAt = now]
                 IN /\ objects' = [objects EXCEPT ![live[k]] = scene]
                    /\ cached' = Some(assign(data, live, live[k], scene))
                    /\ ops' = [ops EXCEPT ![e].pc = "mkdir", ![e].refs = <<live[k]>>]
                    /\ UNCHANGED live
            [] op.kind = "attach" /\ k = 0 ->
                 /\ ops' = [ops EXCEPT ![e].pc = "thrown"]
                 /\ UNCHANGED <<objects, live, cached>>
            [] op.kind = "attach" /\ k # 0 ->
                 /\ ops' = [ops EXCEPT ![e].pc = "assetDir", ![e].refs = <<live[k]>>]
                 /\ UNCHANGED <<objects, live, cached>>
            [] op.kind = "settings" ->
                 /\ cached' = Some(saveSettingsDoc(data, op.value))
                 /\ ops' = [ops EXCEPT ![e].pc = "mkdir"]
                 /\ UNCHANGED <<objects, live>>
            [] op.kind = "replace" ->
                 /\ objects' = objects \o op.list
                 /\ live' = [j \in 1..Len(op.list) |-> Len(objects) + j]
                 /\ cached' = Some([data EXCEPT !.scenes = op.list])
                 /\ ops' = [ops EXCEPT ![e].pc = "mkdir",
                                       ![e].refs = [j \in 1..Len(op.list) |->
                                                       Len(objects) + j]]
    /\ UNCHANGED <<storeFrame, exportVars, timerVars, disk, settings, scenes,
                   debounceRef, replies, assets>>

\* attachSceneImage after ensureDir(assetDir()): the file name is made and
\* fs.writeFile of the image is called
AssetDirMade(e) ==
    /\ ops[e].pc = "assetDir"
    /\ ops' = [ops EXCEPT ![e].pc = "image", ![e].file = assetPath(ops[e].id, now)]
    /\ UNCHANGED <<storeFrame, exportVars, timerVars, storeVars, settings, scenes,
                   debounceRef, replies, objects, live, assets>>

\* attachSceneImage after the image is written: the scene object it found
\* gets the path and updatedAt, and persist calls ensureDir
ImageWritten(e) ==
    /\ ops[e].pc = "image"
    /\ LET ref == ops[e].refs[1]
           scene == [objects[ref] EXCEPT !.primaryImagePath = Some(ops[e].file),
                                         !.updatedAt = now]
       IN /\ assets' = assets \cup {ops[e].file}
          /\ objects' = [objects EXCEPT ![ref] = scene]
          /\ cached' = Some(assign(cached[1], live, ref, scene))
          /\ ops' = [ops EXCEPT ![e].pc = "write_dir"]
    /\ UNCHANGED <<storeFrame, exportVars, timerVars, disk, settings, scenes,
                   debounceRef, replies, live>>

\* persist after ensureDir: JSON.stringify(cached) is taken and fs.writeFile
\* of the document is called
DirMade(e) ==
    /\ ops[e].pc \in {"mkdir", "write_dir"}
    /\ ops' = [ops EXCEPT ![e].pc = "write", ![e].content = cached]
    /\ UNCHANGED <<storeFrame, exportVars, timerVars, storeVars, settings, scenes,
                   debounceRef, replies, objects, live, assets>>

\* what the handler returns, as it is serialised for the reply
resultOf(op, heap) == [j \in 1..Len(op.refs) |-> heap[op.refs[j]]]

\* fs.writeFile of the document completes: the file holds what this call
\* was given, and the handler returns its scene or scenes to the renderer
Written(e) ==
    /\ ops[e].pc = "write"
    /\ disk' = ops[e].content
    /\ ops' = [ops EXCEPT ![e].pc = "replied", ![e].result = resultOf(ops[e], objects)]
    /\ replies' = Append(replies, e)
    /\ UNCHANGED <<storeFrame, exportVars, timerVars, cached, settings, scenes,
                   debounceRef, objects, live, assets>>

\* setScenes((prev) => prev.map((item) => (item.id === updated.id ? updated : item)))
setUpdated(prev, updated) ==
    [k \in 1..Len(prev) |-> IF prev[k].id = updated.id THEN updated ELSE prev[k]]

\* the renderer gets the reply of its oldest answered invocation: the
\* handler that awaited it sets the scenes and calls triggerAutosave
ReplyHandled ==
    /\ replies # <<>>
    /\ LET e == Head(replies) IN
         /\ scenes' = CASE ops[e].kind = "replace" -> ops[e].result
                         [] ops[e].kind = "settings" -> scenes
                         [] OTHER -> setUpdated(scenes, ops[e].result[1])
         /\ debounceRef' = IF ops[e].kind = "settings" THEN debounceRef
                           ELSE triggerAutosave(ops[e].auto, debounceRef)
         /\ timers' = IF ops[e].kind = "settings" THEN timers
                      ELSE setTimer(ops[e].auto, debounceRef, timers, now,
                                    ops[e].settings, ops[e].snap)
         /\ ops' = [ops EXCEPT ![e].pc = "done"]
    /\ replies' = Tail(replies)
    /\ UNCHANGED <<storeFrame, exportVars, storeVars, settings, objects, live, assets>>

StoreStep(e) ==
    \/ Receive(e) \/ AssetDirMade(e) \/ ImageWritten(e) \/ DirMade(e) \/ Written(e)

NextStore ==
    \/ \E sceneId \in 1..3 :
          \/ \E field \in PatchFields : UpdateSceneField(sceneId, field)
          \/ HandleToggleCharacter(sceneId)
          \/ HandleDropImage(sceneId)
    \/ ApplyImportScenes
    \/ SaveSettings
    \/ \E e \in 1..Len(ops) : StoreStep(e)
    \/ ReplyHandled

SpecStore == InitStore /\ [][NextStore]_vars

\* the invocations whose handler has returned or thrown
Completed == {e \in 1..Len(ops) : ops[e].pc \in {"replied", "done", "thrown"}}

\* the invocation whose handler takes its first step
Received(e) == ops[e].pc = "sent" /\ ops'[e].pc # "sent"

inCollection(sceneId) == find(cached[1].scenes, sceneId) # 0


\* C15: when the handler of updateScene, toggleCharacter or attachSceneImage
\* begins for a scene identifier that is not in the collection, it throws,
\* and the cached document, the document on disk and the assets directory
\* stay as they are.
C15_MissingIdFails ==
    [][\A e \in 1..Len(ops) :
          (/\ Received(e)
           /\ ops[e].kind \in {"update", "toggle", "attach"}
           /\ ~inCollection(ops[e].id))
          => /\ ops'[e].pc = "thrown"
             /\ cached' = cached /\ disk' = disk /\ assets' = assets]_vars

\* C18: once every mutation invoked has completed, the document on disk
\* equals the cached document.
C18_DiskEqualsCached ==
    (ops # <<>> /\ Completed = 1..Len(ops)) => disk = cached


\* the identifiers of a collection, in its order
Ids(list) == [k \in 1..Len(list) |-> list[k].id]

\* C19: a step of the store that is not the replace of replace-scenes keeps
\* the number, the order and the identifiers of the scenes of the collection,
\* and a scene changes only in a step of updateScene, toggleCharacter or
\* attachSceneImage that is addressed to its identifier.
C19_OnlyReplaceDestroys ==
    [][(\A e \in 1..Len(ops) : ops[e].kind = "replace" => ~Received(e))
       => LET old == cached[1].scenes
              new == cached'[1].scenes
          IN /\ Ids(new) = Ids(old)
             /\ \A k \in 1..Len(old) :
                   new[k] # old[k] =>
                      \E e \in 1..Len(ops) :
                         /\ ops[e].kind \in {"update", "toggle", "attach"}
                         /\ ops[e].id = old[k].id
                         /\ ops'[e].pc # ops[e].pc]_vars

\* an edit and an attachment of scene 1 have completed, and the collection
\* has its two scenes, the second as it was
C19_Witness ==
    /\ Len(ops) = 2
    /\ {ops[e].kind : e \in 1..2} = {"update", "attach"}
    /\ \A e \in 1..2 : ops[e].id = 1 /\ ops[e].pc = "done"
    /\ Ids(cached[1].scenes) = <<1, 2>>
    /\ cached[1].scenes[1] # StoreScenes[1]
    /\ cached[1].scenes[2] = StoreScenes[2]


\* the fields of a scene that edits, toggles and attachments write
WrittenFields == {"enText", "viText", "characterImage", "primaryImagePath"}

\* the value an operation writes to the field it targets
written(op) ==
    CASE op.kind = "update" -> op.scene[op.field]
      [] op.kind = "toggle" -> op.value
      [] op.kind = "attach" -> Some(op.file)

\* the completed operations on a scene that targeted a field, in the order
\* in which the App issued them
Targeting(sceneId, field) ==
    {e \in 1..Len(ops) : /\ ops[e].kind \in {"update", "toggle", "attach"}
                         /\ ops[e].id = sceneId
                         /\ ops[e].field = field
                         /\ ops[e].pc = "done"}

Greatest(S) == CHOOSE i \in S : \A j \in S : j <= i

\* C20: once every operation has completed and the document is on disk,
\* each field of each persisted scene that an operation targeted holds the
\* value written by the last operation that targeted it.
C20_LastWriteWins ==
    (/\ ops # <<>>
     /\ \A e \in 1..Len(ops) : ops[e].pc \in {"done", "thrown"}
     /\ disk = cached)
    => \A k \in 1..Len(disk[1].scenes) : \A field \in WrittenFields :
          LET scene == disk[1].scenes[k]
              T == Targeting(scene.id, field)
          IN T # {} => scene[field] = written(ops[Greatest(T)])


-----------------------------------------------------------------------------
(* Autosave: edits with autosave enabled, the timer of triggerAutosave and  *)
(* the export it starts                                                     *)

\* the clock's last tick
MaxTime == 4

\* the App after its mount effect, with autosave enabled and a save directory
InitAutosave ==
    /\ scenes = StoreScenes
    /\ settings = [defaultSettings EXCEPT !.autosaveEnabled = TRUE,
                                          !.saveDirectory = StrDir]
    /\ cached = Some([settings |-> settings, scenes |-> scenes])
    /\ disk = cached
    /\ objects = scenes
    /\ live = [k \in 1..Len(scenes) |-> k]
    /\ ops = <<>> /\ replies = <<>> /\ assets = {}
    /\ CopyIdle
    /\ docs = <<>> /\ cachedRef = 0
    /\ loadPc = "done"
    /\ loaded = <<settings, scenes>>
    /\ showImport = FALSE /\ importInput = <<>> /\ importMarkdown = <<>>
    /\ calls = <<>> /\ debounceRef = 0
    /\ nextId = 4 /\ now = 1
    /\ files = [p \in Paths |-> "absent"]
    /\ ExportIdle /\ LinksIdle /\ TimersIdle
    /\ CmpIdle /\ NormIdle /\ ConvIdle

\* time passes up to the moment at which a pending timer is due
Elapse ==
    /\ now < MaxTime
    /\ \A tm \in timers : now < tm.due
    /\ now' = now + 1
    /\ UNCHANGED <<cmpVars, normVars, convVars, storeVars, uiVars, nextId, opsVars>>

\* a timer is due: its callback calls handleExport(true) of its render
TimerFire ==
    \E tm \in timers :
       /\ now >= tm.due
       /\ timers' = timers \ {tm}
       /\ \E run \in {newExport(TRUE, tm.settings, tm.scenes)} :
             /\ exports' = Append(exports, run)
             /\ exportStatus' = IF run.pc = "pick" THEN exportStatus ELSE run.status
             /\ exportWarnings' = warningsAfter(run, exportWarnings)
       /\ UNCHANGED <<cmpVars, normVars, convVars, storeVars, uiVars, envVars, files,
                      linkVars, zipFile, mutVars>>

NextAutosave ==
    \/ UpdateSceneField(1, "enText")
    \/ HandleToggleCharacter(1)
    \/ \E e \in 1..Len(ops) : Receive(e) \/ DirMade(e) \/ Written(e)
    \/ ReplyHandled
    \/ Elapse
    \/ TimerFire
    \/ \E e \in 1..Len(exports) : WriteZip(e)

SpecAutosave == InitAutosave /\ [][NextAutosave]_vars

\* the reply of an edit is handled by a handler of a render with autosave on
Triggered ==
    /\ replies # <<>>
    /\ ops[Head(replies)].auto
    /\ ops'[Head(replies)].pc = "done"

\* C16: with autosave enabled at most one timer is pending; when an edit has
\* been answered and applied, whatever timer was pending is gone and one
\* timer is pending, due one idle window later; an automatic export begins
\* only when the pending timer is due, and leaves no timer pending. So edits
\* each applied within the idle window of the previous one are followed by
\* one automatic export, one idle window after the last.
C16_OnePendingTimer ==
    /\ [](Cardinality(timers) <= 1)
    /\ [][Triggered =>
             \E tm \in timers' :
                /\ timers' = {tm}
                /\ tm.due = now + IdleWindow
                /\ tm \notin timers
                /\ debounceRef' = tm.id]_vars
    /\ [][Len(exports') # Len(exports) =>
             /\ \E tm \in timers : tm.due = now
             /\ timers' = {}
             /\ exports' = Append(exports, exports'[Len(exports')])
             /\ exports'[Len(exports')].auto]_vars

\* two edits, made at different moments, the second applied while the timer
\* of the first was pending, and the one export that followed
C16_Witness ==
    /\ Len(ops) = 2
    /\ \A e \in 1..2 : ops[e].pc = "done"
    /\ ops[1].kind = "update" /\ ops[1].scene.updatedAt = 1
    /\ ops[2].kind = "update" /\ ops[2].scene.updatedAt = 2
    /\ debounceRef = 2
    /\ timers = {}
    /\ Len(exports) = 1
    /\ exports[1].auto /\ exports[1].pc = "done"

\* C25: when a timer fires, the export it starts is built from the scenes as
\* they are at that moment, which hold the edit that set the timer and every
\* edit applied before it.
C25_ExportHasEdit ==
    [][Len(exports') # Len(exports) =>
          exports'[Len(exports')].snap = scenes]_vars

\* the same with the autosave checkbox in reach of the operator
NextAutosaveToggle == NextAutosave \/ SaveSettings

SpecAutosaveToggle == InitAutosave /\ [][NextAutosaveToggle]_vars

\* C26: an automatic export starts only while autosave is enabled; a timer
\* that was pending when the operator turned autosave off starts none.
C26_NoExportWhenOff ==
    [][Len(exports') # Len(exports) =>
          (exports'[Len(exports')].auto => settings.autosaveEnabled)]_vars


-----------------------------------------------------------------------------
(* The codes of the scenes                                                  *)

\* a code of integer segments whose first segment has three digits
threeDigitCode(code) ==
    LET parts == split(code, Separators) IN
    /\ \A k \in 1..Len(parts) : AllDigits(parts[k])
    /\ Len(parts[1]) = 3

\* the codes of a collection are such codes
codesOf(list) == \A k \in 1..Len(list) : threeDigitCode(list[k].code)

\* C21: in every state reached by imports, field edits, image attachments
\* and character toggles, the code of each scene of the App, of the cached
\* document, of the document on disk and of every scene object is a
\* sequence of integer segments separated by '.' or '-' whose first segment
\* has exactly three digits.
C21_CodesWellFormed ==
    /\ codesOf(scenes)
    /\ codesOf(cached[1].scenes)
    /\ codesOf(disk[1].scenes)
    /\ codesOf(objects)

\* the import of the row with code 1234-5 has been applied and a text field
\* of its scene edited
C21_Witness ==
    /\ Len(ops) = 2
    /\ ops[1].kind = "replace" /\ ops[2].kind = "update"
    /\ ops[2].pc = "done"
    /\ Len(scenes) = 1
    /\ scenes[1].code = <<"2", "3", "4", "-", "5">>
    /\ scenes[1].enText = TxtNew
    /\ disk[1].scenes = scenes


-----------------------------------------------------------------------------
(* The start: store channels invoked while the first loadData is reading    *)
(* the file.  Each call of loadData that finds cached empty reads the file   *)
(* itself and assigns the document it has parsed to cached.                  *)

\* the window after its first render, nothing loaded in the main process
InitColdStart ==
    /\ disk \in PriorDisks
    /\ cached = null
    /\ docs = <<>> /\ cachedRef = 0
    /\ settings = defaultSettings
    /\ scenes = <<>>
    /\ showImport = FALSE /\ importInput = <<>> /\ importMarkdown = <<>>
    /\ loadPc = "mounted"
    /\ loaded = <<>>
    /\ calls = <<>> /\ debounceRef = 0
    /\ nextId = 4 /\ now = 2
    /\ ops = <<>> /\ replies = <<>> /\ objects = <<>> /\ live = <<>> /\ assets = {}
    /\ CopyIdle
    /\ files = [p \in Paths |-> "absent"]
    /\ ExportIdle /\ LinksIdle /\ TimersIdle
    /\ CmpIdle /\ NormIdle /\ ConvIdle

coldFrame ==
    <<files, linkVars, exportVars, cmpVars, normVars, convVars, envVars,
      importInput, importMarkdown, calls, objects, live, assets, copyVars>>

\* the mount effect: load() invokes read-settings
Mount ==
    /\ loadPc = "mounted"
    /\ loadPc' = "settings"
    /\ ops' = Append(ops, newOp("readSettings", 0, "none", <<>>, FALSE, <<>>))
    /\ UNCHANGED <<coldFrame, timerVars, storeVars, docs, cachedRef, settings, scenes,
                   showImport, loaded, debounceRef, replies>>

\* the mutations the operator has invoked
userOps == {e \in 1..Len(ops) : ops[e].kind \in {"settings", "replace"}}

\* the autosave checkbox, as SaveSettings, at any moment after the first render
ColdSaveSettings ==
    /\ Cardinality(userOps) < MaxOps
    /\ LET next == [settings EXCEPT !.autosaveEnabled = ~@] IN
         /\ settings' = next
         /\ ops' = Append(ops, newOp("settings", 0, "none", <<>>, next, <<>>))
    /\ UNCHANGED <<coldFrame, timerVars, storeVars, docs, cachedRef, scenes, showImport,
                   loadPc, loaded, debounceRef, replies>>

\* applyImport for an input that converts to ImportedScenes, at any moment
\* after the first render
ColdApplyImport ==
    /\ Cardinality(userOps) < MaxOps
    /\ \A e \in 1..Len(ops) : ops[e].kind # "replace"
    /\ ops' = Append(ops, newOp("replace", 0, "none", <<>>, FALSE, ImportedScenes))
    /\ UNCHANGED <<coldFrame, timerVars, storeVars, docs, cachedRef, settings, scenes,
                   showImport, loadPc, loaded, debounceRef, replies>>

\* the handler of invocation e once loadData has returned document ref of
\* the documents ds: a read returns what it asked for, a mutation assigns to
\* the document and calls persist
Applied(e, ds, ref, cref) ==
    LET op == ops[e] IN
    CASE op.kind = "readSettings" ->
           /\ docs' = ds
           /\ cached' = Some(ds[cref])
           /\ ops' = [ops EXCEPT ![e].pc = "replied", ![e].doc = ref,
                                 ![e].result = ds[ref].settings]
           /\ replies' = Append(replies, e)
      [] op.kind = "readScenes" ->
           /\ docs' = ds
           /\ cached' = Some(ds[cref])
           /\ ops' = [ops EXCEPT ![e].pc = "replied", ![e].doc = ref,
                                 ![e].result = ds[ref].scenes]
           /\ replies' = Append(replies, e)
      [] op.kind = "settings" ->
           /\ docs' = [ds EXCEPT ![ref] = saveSettingsDoc(@, op.value)]
           /\ cached' = Some(docs'[cref])
           /\ ops' = [ops EXCEPT ![e].pc = "mkdir", ![e].doc = ref]
           /\ UNCHANGED replies
      [] op.kind = "replace" ->
           /\ docs' = [ds EXCEPT ![ref] = replaceScenes(@, op.list)]
           /\ cached' = Some(docs'[cref])
           /\ ops' = [ops EXCEPT ![e].pc = "mkdir", ![e].doc = ref]
           /\ UNCHANGED replies

\* the handler of an invocation begins: loadData returns the cached
\* document, or finds none and calls fs.readFile
ColdReceive(e) ==
    /\ Unreceived # {}
    /\ e = Least(Unreceived)
    /\ IF cachedRef # 0
       THEN Applied(e, docs, cachedRef, cachedRef)
       ELSE /\ ops' = [ops EXCEPT ![e].pc = "reading"]
            /\ UNCHANGED <<docs, cached, replies>>
    /\ UNCHANGED <<coldFrame, timerVars, disk, cachedRef, settings, scenes, showImport,
                   loadPc, loaded, debounceRef>>

\* { settings: defaultSettings, scenes: [] }
defaultDoc == [settings |-> defaultSettings, scenes |-> <<>>]

\* fs.readFile of a loadData completes: the document parsed is assigned to
\* cached and returned; without a file the default document is assigned and
\* persist is called
ColdReadDone(e) ==
    /\ ops[e].pc = "reading"
    /\ cachedRef' = Len(docs) + 1
    /\ IF disk # null
       THEN Applied(e, Append(docs, disk[1]), Len(docs) + 1, Len(docs) + 1)
       ELSE /\ docs' = Append(docs, defaultDoc)
            /\ cached' = Some(defaultDoc)
            /\ ops' = [ops EXCEPT ![e].pc = "loadMkdir"]
            /\ UNCHANGED replies
    /\ UNCHANGED <<coldFrame, timerVars, disk, settings, scenes, showImport,
                   loadPc, loaded, debounceRef>>

\* persist of loadData after ensureDir
ColdLoadDirMade(e) ==
    /\ ops[e].pc = "loadMkdir"
    /\ ops' = [ops EXCEPT ![e].pc = "loadWrite", ![e].content = cached]
    /\ UNCHANGED <<coldFrame, timerVars, storeVars, docs, cachedRef, settings, scenes,
                   showImport, loadPc, loaded, debounceRef, replies>>

\* persist of loadData has written: loadData returns what cached is now
ColdLoadWritten(e) ==
    /\ ops[e].pc = "loadWrite"
    /\ disk' = ops[e].content
    /\ Applied(e, docs, cachedRef, cachedRef)
    /\ UNCHANGED <<coldFrame, timerVars, cachedRef, settings, scenes, showImport,
                   loadPc, loaded, debounceRef>>

\* the renderer gets the reply of its oldest answered invocation: load goes
\* on to read-scenes and then sets the settings and scenes, applyImport sets
\* the scenes
ColdReply ==
    /\ replies # <<>>
    /\ replies' = Tail(replies)
    /\ LET e == Head(replies)
           op == ops[e]
           done == [ops EXCEPT ![e].pc = "done"]
       IN CASE op.kind = "readSettings" ->
                 /\ loaded' = <<op.result>>
                 /\ loadPc' = "scenes"
                 /\ ops' = Append(done, newOp("readScenes", 0, "none", <<>>, FALSE, <<>>))
                 /\ UNCHANGED <<settings, scenes, showImport, debounceRef, timers>>
            [] op.kind = "readScenes" ->
                 /\ settings' = loaded[1]
                 /\ scenes' = op.result
                 /\ loadPc' = "done"
                 /\ ops' = done
                 /\ UNCHANGED <<loaded, showImport, debounceRef, timers>>
            [] op.kind = "settings" ->
                 /\ ops' = done
                 /\ UNCHANGED <<settings, scenes, loadPc, loaded, showImport, debounceRef,
                                timers>>
            [] op.kind = "replace" ->
                 /\ scenes' = op.list
                 /\ showImport' = FALSE
                 /\ debounceRef' = triggerAutosave(op.auto, debounceRef)
                 /\ timers' = setTimer(op.auto, debounceRef, timers, now,
                                       op.settings, op.snap)
                 /\ ops' = done
                 /\ UNCHANGED <<settings, loadPc, loaded>>
    /\ UNCHANGED <<coldFrame, storeVars, docs, cachedRef>>

ColdStep(e) ==
    \/ ColdReceive(e) \/ ColdReadDone(e) \/ ColdLoadDirMade(e) \/ ColdLoadWritten(e)
    \/ DirMade(e) \/ Written(e)

NextColdStart ==
    \/ Mount
    \/ ColdSaveSettings
    \/ ColdApplyImport
    \/ \E e \in 1..Len(ops) : ColdStep(e)
    \/ ColdReply

SpecColdStart == InitColdStart /\ [][NextColdStart]_vars

\* the one mutation of a kind, when the operator has invoked just one
only(kind) ==
    LET T == {e \in userOps : ops[e].kind = kind} IN
    IF Cardinality(T) = 1 THEN Some(CHOOSE e \in T : TRUE) ELSE null

\* C23: once every invocation has completed, the settings of the one
\* save-settings and the scenes of the one replace-scenes are in the cached
\* document and in the document that their own persist wrote.
C23_LoadedOnce ==
    (ops # <<>> /\ \A e \in 1..Len(ops) : ops[e].pc = "done")
    => /\ only("settings") # null =>
            LET op == ops[only("settings")[1]] IN
            /\ cached[1].settings = op.value
            /\ op.content[1].settings = op.value
       /\ only("replace") # null =>
            LET op == ops[only("replace")[1]] IN
            /\ cached[1].scenes = op.list
            /\ op.content[1].scenes = op.list


-----------------------------------------------------------------------------
(* Files put into a library folder: copyFileToFolder and                     *)
(* saveClipboardImageToFolder with ensureUniqueName (db.ts)                  *)

MaxCopies == 2

\* parsed.name of the files the operator picks, and the extension of all
CopyBases == {"a", "a_1"}
CopyExt == ".png"

\* the names in the folder before the program puts anything there
InitialFolders == { {}, {"a.png"}, {"a.png", "a_1.png"} }

\* the file the operator put there before
Foreign == 0

InitCopy ==
    /\ \E S \in InitialFolders : folder = [n \in S |-> Foreign]
    /\ copies = <<>>
    /\ scenes = <<>> /\ settings = defaultSettings
    /\ disk = null /\ cached = null
    /\ showImport = FALSE /\ importInput = <<>> /\ importMarkdown = <<>>
    /\ loadPc = "mounted" /\ loaded = <<>> /\ calls = <<>> /\ debounceRef = 0
    /\ nextId = 1 /\ now = 1
    /\ ops = <<>> /\ replies = <<>> /\ objects = <<>> /\ live = <<>> /\ assets = {}
    /\ docs = <<>> /\ cachedRef = 0
    /\ files = [p \in Paths |-> "absent"]
    /\ ExportIdle /\ LinksIdle /\ TimersIdle
    /\ CmpIdle /\ NormIdle /\ ConvIdle

\* what no step of a copy changes
copyFrame ==
    <<cmpVars, normVars, convVars, storeVars, uiVars, nextId, files, linkVars,
      exportVars, timerVars, ops, replies, objects, live, docs, cachedRef, assets>>

\* `${baseName}${ext}`, and `${baseName}_${counter}${ext}` once counted
candidate(baseName, ext, counter) ==
    IF counter = 0 THEN baseName \o ext
    ELSE baseName \o "_" \o ToString(counter) \o ext

\* copy-file-to-folder is invoked for a picked file; the handler calls
\* ensureDir
CopyFileToFolder ==
    /\ Len(copies) < MaxCopies
    /\ \E base \in CopyBases :
          copies' = Append(copies, [kind |-> "copy", baseName |-> base, counter |-> 0,
                                    pc |-> "ensureDir", fileName |-> ""])
    /\ UNCHANGED <<copyFrame, folder, now>>

\* save-clipboard-image-to-folder is invoked for a pasted image; the handler
\* calls ensureDir
SaveClipboardImageToFolder ==
    /\ Len(copies) < MaxCopies
    /\ copies' = Append(copies, [kind |-> "clipboard", baseName |-> "", counter |-> 0,
                                 pc |-> "ensureDir", fileName |-> ""])
    /\ UNCHANGED <<copyFrame, folder, now>>

\* ensureDir is done: the clipboard image gets its base name from the clock,
\* and ensureUniqueName asks whether its first candidate exists
CopyDirMade(c) ==
    /\ copies[c].pc = "ensureDir"
    /\ copies' = [copies EXCEPT ![c].pc = "fileExists",
                                ![c].baseName = IF copies[c].kind = "clipboard"
                                                THEN "clipboard_" \o ToString(now)
                                                ELSE @]
    /\ UNCHANGED <<copyFrame, folder, now>>

\* fileExists answers for the candidate: the loop counts on, or
\* ensureUniqueName returns the candidate and fs.copyFile or fs.writeFile is
\* called with it
UniqueNameStep(c) ==
    /\ copies[c].pc = "fileExists"
    /\ LET call == copies[c]
           name == candidate(call.baseName, CopyExt, call.counter)
       IN copies' = IF name \in DOMAIN folder
                    THEN [copies EXCEPT ![c].counter = @ + 1]
                    ELSE [copies EXCEPT ![c].pc = "write", ![c].fileName = name]
    /\ UNCHANGED <<copyFrame, folder, now>>

\* fs.copyFile or fs.writeFile is done: the destination holds the bytes of
\* this call
CopyWritten(c) ==
    /\ copies[c].pc = "write"
    /\ folder' = (copies[c].fileName :> c) @@ folder
    /\ copies' = [copies EXCEPT ![c].pc = "done"]
    /\ UNCHANGED <<copyFrame, now>>

\* a millisecond passes
CopyTick ==
    /\ now < MaxClock
    /\ now' = now + 1
    /\ UNCHANGED <<copyFrame, copyVars>>

NextCopy ==
    \/ CopyFileToFolder
    \/ SaveClipboardImageToFolder
    \/ \E c \in 1..Len(copies) : CopyDirMade(c) \/ UniqueNameStep(c) \/ CopyWritten(c)
    \/ CopyTick

SpecCopy == InitCopy /\ [][NextCopy]_vars

\* C28: no step changes what a file of the folder holds, so every call
\* writes to a name that was unused, also when two calls with the same base
\* name and extension overlap; and the search of ensureUniqueName has only
\* counted past names that exist, so it ends.
C28_NeverOverwrites ==
    /\ [][\A n \in DOMAIN folder :
             n \in DOMAIN folder' /\ folder'[n] = folder[n]]_vars
    /\ [](\A c \in 1..Len(copies) :
             copies[c].counter <= Cardinality(DOMAIN folder))

=============================================================================
